---- MODULE Spec2Model ----
(***************************************************************************)
(* Model of the token-bucket rate limiter (rate_limiter/src/lib.rs) and of *)
(* the VM and vCPU state of the VMM (vmm/src/vstate.rs).                   *)
(* Time is the monotonic clock in nanoseconds, as read by                  *)
(* time::precise_time_ns(); the timer fd is a one-shot timerfd.            *)
(***************************************************************************)
EXTENDS Integers, Sequences, FiniteSets, TLC

VARIABLES
    bandwidth,          \* RateLimiter.bandwidth : Option<TokenBucket>
    ops,                \* RateLimiter.ops       : Option<TokenBucket>
    timer_active,       \* RateLimiter.timer_active
    timer_deadline,     \* timer fd: None when disarmed, Some(t) when armed to expire at t
    timer_expirations,  \* timer fd: expirations not yet read
    now,                \* the monotonic clock, in ns
    last,               \* the last operation performed, its arguments and its result
    prev,               \* history: the bucket a granted consume drew from, as it was before
    drained_at,         \* history, per token kind: Some(t) once a reduce at time t took the
                        \* budget to 0 and no tokens were drawn or credited since
    supplied,           \* history: the buckets the last operation, an update_buckets, was given
    pending,            \* the limiter's user: None, or Some of the amount of its refused
                        \* consume and whether the timer event has woken it to retry it
    pc,                 \* per vCPU thread: its position in GuestVcpu::run
    seccomp,            \* per vCPU thread: whether its seccomp filter is installed
    runs,               \* per vCPU thread: the number of calls of fd.run() it has made
    barrier,            \* the thread barrier: participants, arrivals, generation
    supervisor,         \* the supervisor thread's position at the barrier
    exit_evt,           \* per vCPU: the counter of its exit eventfd
    metrics,            \* METRICS.vcpu: the shared counters
    vlast,              \* the last step of a vCPU thread and what it did
    arch,               \* the target architecture the VMM was built for
    max_memslots,       \* hyp_context.max_memslots(): the most slots the driver allows
    guest_mem,          \* GuestVm.guest_mem : Option<GuestMemory>
    irqchip_handle,     \* GuestVm.irqchip_handle : Option<DeviceFd> (aarch64)
    kvm,                \* the kernel's side of GuestVm.fd: slots, TSS, irq chip, vCPUs, irqfds
    vm_last,            \* the last operation on the VM, its argument and its result
    hyp_cpuid,          \* the CPUID table hyp.get_supported_cpuid(MAX_CPUID_ENTRIES) reports
    supported_cpuid,    \* GuestVm.supported_cpuid : CpuId (x86_64; None on aarch64)
    guest_vcpus         \* per vCPU id: None, or Some(GuestVcpu) once GuestVcpu::new succeeded

histVars == <<prev, drained_at, supplied, pending>>
rlVars == <<bandwidth, ops, timer_active, timer_deadline, timer_expirations, now, last, histVars>>
vcpuVars == <<pc, seccomp, runs, barrier, supervisor, exit_evt, metrics, vlast>>
vmVars == <<arch, max_memslots, guest_mem, irqchip_handle, kvm, vm_last,
           hyp_cpuid, supported_cpuid, guest_vcpus>>

vars == <<rlVars, vcpuVars, vmVars>>

-----------------------------------------------------------------------------
(* Bounds of the model. *)

MaxSize == 3        \* the bandwidth bucket has size 0 or MaxSize
MaxBurst == 2       \* its one-time burst is None or Some(MaxBurst)
MaxTokens == 4      \* token amounts of consume and manual_replenish
MaxTicks == 3       \* the clock stops after MaxTicks half-intervals
MaxNewSize == 12    \* SpecNew: sizes s and 1000 * s for s in 1..MaxNewSize
MaxNewRefill == 12  \* SpecNew: refill times 1..MaxNewRefill ms
NumVcpus == 2       \* SpecVcpu: the number of vCPU threads
MaxRuns == 3        \* SpecVcpu: the vCPU threads call fd.run() at most MaxRuns times in all
MaxMemSlots == 2    \* SpecVm: the driver allows 1..MaxMemSlots memory slots
MaxRegions == 3     \* SpecVm: a GuestMemory has 1..MaxRegions regions
MaxConfigures == 1  \* SpecConfigure: at most MaxConfigures configure calls in all rewrite a CPUID table
MaxRetrySize == 2   \* SpecRetry: bucket sizes 1..MaxRetrySize, requests 1..MaxRetrySize + 1

(* Program constants. *)

REFILL_TIMER_INTERVAL_MS == 100
NANOSEC_IN_ONE_MILLISEC == 1000000
MAGIC_IOPORT_SIGNAL_GUEST_BOOT_COMPLETE == 1008      \* 0x03f0
MAGIC_VALUE_SIGNAL_GUEST_BOOT_COMPLETE == 123

-----------------------------------------------------------------------------
(* Option<T>: None is the empty sequence, Some(x) the one-element sequence. *)

None == << >>
Some(x) == << x >>
IsSome(o) == Len(o) = 1
Unwrap(o) == o[1]

TokenTypes == {"Bytes", "Ops"}

Tokens == 0..MaxTokens

\* The (size, one_time_burst, complete_refill_time_ms) triples a bucket is built from.
Config(S, B, R) ==
    { [size |-> sz, one_time_burst |-> b, refill_time |-> r] : sz \in S, b \in B, r \in R }

RefillTimes == {0, REFILL_TIMER_INTERVAL_MS}
BytesConfigs == Config({0, MaxSize}, {None, Some(MaxBurst)}, RefillTimes)
OpsConfigs == Config({0, 1}, {None}, RefillTimes)

\* Half the timer period, the step by which the tests let time pass.
TickNs == (REFILL_TIMER_INTERVAL_MS * NANOSEC_IN_ONE_MILLISEC) \div 2

SPURIOUS_MSG == "Rate limiter event handler called without a present timer"

-----------------------------------------------------------------------------
(* Pure functions. *)

RECURSIVE gcd(_, _)
gcd(x, y) == IF y = 0 THEN x ELSE gcd(y, x % y)

\* Mutant of TokenBucket::new: the refill time is turned to nanoseconds without
\* the reduction by the second common factor.
TokenBucketNew_unreduced(size, one_time_burst, complete_refill_time_ms, t) ==
    LET common_factor1 == gcd(size, complete_refill_time_ms)
        processed_capacity1 == size \div common_factor1
        processed_refill_time1 == complete_refill_time_ms \div common_factor1
        common_factor2 == gcd(processed_capacity1, NANOSEC_IN_ONE_MILLISEC)
    IN  [ size |-> size,
          one_time_burst |-> one_time_burst,
          refill_time |-> complete_refill_time_ms,
          budget |-> size,
          last_update |-> t,
          processed_capacity |-> processed_capacity1 \div common_factor2,
          processed_refill_time |-> processed_refill_time1 * NANOSEC_IN_ONE_MILLISEC ]

\* TokenBucket::new at clock value t
TokenBucketNew(size, one_time_burst, complete_refill_time_ms, t) ==
    LET common_factor1 == gcd(size, complete_refill_time_ms)
        processed_capacity1 == size \div common_factor1
        processed_refill_time1 == complete_refill_time_ms \div common_factor1
        common_factor2 == gcd(processed_capacity1, NANOSEC_IN_ONE_MILLISEC)
    IN  [ size |-> size,
          one_time_burst |-> one_time_burst,
          refill_time |-> complete_refill_time_ms,
          budget |-> size,
          last_update |-> t,
          processed_capacity |-> processed_capacity1 \div common_factor2,
          processed_refill_time |->
              processed_refill_time1 * (NANOSEC_IN_ONE_MILLISEC \div common_factor2) ]

\* TokenBucket::one_time_burst(): unwrap_or(0)
one_time_burst(self) ==
    IF IsSome(self.one_time_burst) THEN Unwrap(self.one_time_burst) ELSE 0

\* Mutant of reduce: the refilled budget is not clamped to size.
reduce_noclamp(self, tokens, t) ==
    LET otb == one_time_burst(self)
        hasBurst == IsSome(self.one_time_burst) /\ otb > 0
    IN  IF hasBurst /\ otb >= tokens
        THEN [ bucket |-> [self EXCEPT !.one_time_burst = Some(otb - tokens),
                                       !.last_update = t],
               ok |-> TRUE ]
        ELSE LET tokens1 == IF hasBurst THEN tokens - otb ELSE tokens
                 self1 == IF hasBurst THEN [self EXCEPT !.one_time_burst = Some(0)]
                                      ELSE self
                 time_delta == t - self1.last_update
                 budget1 == self1.budget +
                     ((time_delta * self1.processed_capacity)
                          \div self1.processed_refill_time)
                 self2 == [self1 EXCEPT !.last_update = t, !.budget = budget1]
             IN  IF tokens1 > budget1
                 THEN IF tokens1 > self2.size /\ budget1 = self2.size
                      THEN [ bucket |-> [self2 EXCEPT !.budget = 0], ok |-> TRUE ]
                      ELSE [ bucket |-> self2, ok |-> FALSE ]
                 ELSE [ bucket |-> [self2 EXCEPT !.budget = budget1 - tokens1],
                        ok |-> TRUE ]

\* Mutant of reduce: a burst that covers only part of the request is set to the
\* residual instead of 0 (the two assignments of the partial branch mixed up).
reduce_swapped(self, tokens, t) ==
    LET otb == one_time_burst(self)
        hasBurst == IsSome(self.one_time_burst) /\ otb > 0
    IN  IF hasBurst /\ otb >= tokens
        THEN [ bucket |-> [self EXCEPT !.one_time_burst = Some(otb - tokens),
                                       !.last_update = t],
               ok |-> TRUE ]
        ELSE LET tokens1 == IF hasBurst THEN tokens - otb ELSE tokens
                 self1 == IF hasBurst
                          THEN [self EXCEPT !.one_time_burst = Some(tokens - otb)]
                          ELSE self
                 time_delta == t - self1.last_update
                 refilled == self1.budget +
                     ((time_delta * self1.processed_capacity)
                          \div self1.processed_refill_time)
                 budget1 == IF refilled >= self1.size THEN self1.size ELSE refilled
                 self2 == [self1 EXCEPT !.last_update = t, !.budget = budget1]
             IN  IF tokens1 > budget1
                 THEN IF tokens1 > self2.size /\ budget1 = self2.size
                      THEN [ bucket |-> [self2 EXCEPT !.budget = 0], ok |-> TRUE ]
                      ELSE [ bucket |-> self2, ok |-> FALSE ]
                 ELSE [ bucket |-> [self2 EXCEPT !.budget = budget1 - tokens1],
                        ok |-> TRUE ]

\* Mutant of reduce: after a partial draw from the burst the whole request,
\* not the residual, is charged to the budget.
reduce_no_residual(self, tokens, t) ==
    LET otb == one_time_burst(self)
        hasBurst == IsSome(self.one_time_burst) /\ otb > 0
    IN  IF hasBurst /\ otb >= tokens
        THEN [ bucket |-> [self EXCEPT !.one_time_burst = Some(otb - tokens),
                                       !.last_update = t],
               ok |-> TRUE ]
        ELSE LET tokens1 == tokens
                 self1 == IF hasBurst THEN [self EXCEPT !.one_time_burst = Some(0)]
                                      ELSE self
                 time_delta == t - self1.last_update
                 refilled == self1.budget +
                     ((time_delta * self1.processed_capacity)
                          \div self1.processed_refill_time)
                 budget1 == IF refilled >= self1.size THEN self1.size ELSE refilled
                 self2 == [self1 EXCEPT !.last_update = t, !.budget = budget1]
             IN  IF tokens1 > budget1
                 THEN IF tokens1 > self2.size /\ budget1 = self2.size
                      THEN [ bucket |-> [self2 EXCEPT !.budget = 0], ok |-> TRUE ]
                      ELSE [ bucket |-> self2, ok |-> FALSE ]
                 ELSE [ bucket |-> [self2 EXCEPT !.budget = budget1 - tokens1],
                        ok |-> TRUE ]

\* Mutant of reduce: a request larger than the bucket is refused like any other
\* request the budget cannot cover.
reduce_no_workaround(self, tokens, t) ==
    LET otb == one_time_burst(self)
        hasBurst == IsSome(self.one_time_burst) /\ otb > 0
    IN  IF hasBurst /\ otb >= tokens
        THEN [ bucket |-> [self EXCEPT !.one_time_burst = Some(otb - tokens),
                                       !.last_update = t],
               ok |-> TRUE ]
        ELSE LET tokens1 == IF hasBurst THEN tokens - otb ELSE tokens
                 self1 == IF hasBurst THEN [self EXCEPT !.one_time_burst = Some(0)]
                                      ELSE self
                 time_delta == t - self1.last_update
                 refilled == self1.budget +
                     ((time_delta * self1.processed_capacity)
                          \div self1.processed_refill_time)
                 budget1 == IF refilled >= self1.size THEN self1.size ELSE refilled
                 self2 == [self1 EXCEPT !.last_update = t, !.budget = budget1]
             IN  IF tokens1 > budget1
                 THEN [ bucket |-> self2, ok |-> FALSE ]
                 ELSE [ bucket |-> [self2 EXCEPT !.budget = budget1 - tokens1],
                        ok |-> TRUE ]

\* Mutant of reduce: a refused request still takes what is left of the budget.
reduce_partial(self, tokens, t) ==
    LET otb == one_time_burst(self)
        hasBurst == IsSome(self.one_time_burst) /\ otb > 0
    IN  IF hasBurst /\ otb >= tokens
        THEN [ bucket |-> [self EXCEPT !.one_time_burst = Some(otb - tokens),
                                       !.last_update = t],
               ok |-> TRUE ]
        ELSE LET tokens1 == IF hasBurst THEN tokens - otb ELSE tokens
                 self1 == IF hasBurst THEN [self EXCEPT !.one_time_burst = Some(0)]
                                      ELSE self
                 time_delta == t - self1.last_update
                 refilled == self1.budget +
                     ((time_delta * self1.processed_capacity)
                          \div self1.processed_refill_time)
                 budget1 == IF refilled >= self1.size THEN self1.size ELSE refilled
                 self2 == [self1 EXCEPT !.last_update = t, !.budget = budget1]
             IN  IF tokens1 > budget1
                 THEN IF tokens1 > self2.size /\ budget1 = self2.size
                      THEN [ bucket |-> [self2 EXCEPT !.budget = 0], ok |-> TRUE ]
                      ELSE [ bucket |-> [self2 EXCEPT !.budget = 0], ok |-> FALSE ]
                 ELSE [ bucket |-> [self2 EXCEPT !.budget = budget1 - tokens1],
                        ok |-> TRUE ]

\* Mutant of reduce: a burst smaller than the request is left as it is and the
\* remainder of the request is drawn from the budget.
reduce_burst_kept(self, tokens, t) ==
    LET otb == one_time_burst(self)
        hasBurst == IsSome(self.one_time_burst) /\ otb > 0
    IN  IF hasBurst /\ otb >= tokens
        THEN [ bucket |-> [self EXCEPT !.one_time_burst = Some(otb - tokens),
                                       !.last_update = t],
               ok |-> TRUE ]
        ELSE LET tokens1 == IF hasBurst THEN tokens - otb ELSE tokens
                 self1 == self
                 time_delta == t - self1.last_update
                 refilled == self1.budget +
                     ((time_delta * self1.processed_capacity)
                          \div self1.processed_refill_time)
                 budget1 == IF refilled >= self1.size THEN self1.size ELSE refilled
                 self2 == [self1 EXCEPT !.last_update = t, !.budget = budget1]
             IN  IF tokens1 > budget1
                 THEN IF tokens1 > self2.size /\ budget1 = self2.size
                      THEN [ bucket |-> [self2 EXCEPT !.budget = 0], ok |-> TRUE ]
                      ELSE [ bucket |-> self2, ok |-> FALSE ]
                 ELSE [ bucket |-> [self2 EXCEPT !.budget = budget1 - tokens1],
                        ok |-> TRUE ]

\* Mutant of reduce: a positive burst that does not cover the whole request
\* refuses it.
reduce_burst_whole(self, tokens, t) ==
    LET otb == one_time_burst(self)
        hasBurst == IsSome(self.one_time_burst) /\ otb > 0
    IN  IF hasBurst /\ otb >= tokens
        THEN [ bucket |-> [self EXCEPT !.one_time_burst = Some(otb - tokens),
                                       !.last_update = t],
               ok |-> TRUE ]
        ELSE IF hasBurst
        THEN [ bucket |-> self, ok |-> FALSE ]
        ELSE LET tokens1 == tokens
                 self1 == self
                 time_delta == t - self1.last_update
                 refilled == self1.budget +
                     ((time_delta * self1.processed_capacity)
                          \div self1.processed_refill_time)
                 budget1 == IF refilled >= self1.size THEN self1.size ELSE refilled
                 self2 == [self1 EXCEPT !.last_update = t, !.budget = budget1]
             IN  IF tokens1 > budget1
                 THEN IF tokens1 > self2.size /\ budget1 = self2.size
                      THEN [ bucket |-> [self2 EXCEPT !.budget = 0], ok |-> TRUE ]
                      ELSE [ bucket |-> self2, ok |-> FALSE ]
                 ELSE [ bucket |-> [self2 EXCEPT !.budget = budget1 - tokens1],
                        ok |-> TRUE ]

\* TokenBucket::reduce at clock value t: the bucket afterwards and the returned bool.
reduce(self, tokens, t) ==
    LET otb == one_time_burst(self)
        hasBurst == IsSome(self.one_time_burst) /\ otb > 0
    IN  IF hasBurst /\ otb >= tokens
        THEN [ bucket |-> [self EXCEPT !.one_time_burst = Some(otb - tokens),
                                       !.last_update = t],
               ok |-> TRUE ]
        ELSE LET tokens1 == IF hasBurst THEN tokens - otb ELSE tokens
                 self1 == IF hasBurst THEN [self EXCEPT !.one_time_burst = Some(0)]
                                      ELSE self
                 time_delta == t - self1.last_update
                 refilled == self1.budget +
                     ((time_delta * self1.processed_capacity)
                          \div self1.processed_refill_time)
                 budget1 == IF refilled >= self1.size THEN self1.size ELSE refilled
                 self2 == [self1 EXCEPT !.last_update = t, !.budget = budget1]
             IN  IF tokens1 > budget1
                 THEN IF tokens1 > self2.size /\ budget1 = self2.size
                      THEN [ bucket |-> [self2 EXCEPT !.budget = 0], ok |-> TRUE ]
                      ELSE [ bucket |-> self2, ok |-> FALSE ]
                 ELSE [ bucket |-> [self2 EXCEPT !.budget = budget1 - tokens1],
                        ok |-> TRUE ]

Min(a, b) == IF a <= b THEN a ELSE b
Max(a, b) == IF a >= b THEN a ELSE b

\* Mutant of replenish: the burst is credited whenever the bucket has one,
\* exhausted or not.
replenish_credit_exhausted(self, tokens) ==
    IF IsSome(self.one_time_burst)
    THEN [self EXCEPT !.one_time_burst = Some(Unwrap(self.one_time_burst) + tokens)]
    ELSE [self EXCEPT !.budget = Min(self.budget + tokens, self.size)]

\* Mutant of replenish: the tokens are credited to the budget, whatever the burst.
replenish_budget_only(self, tokens) ==
    [self EXCEPT !.budget = Min(self.budget + tokens, self.size)]

\* Mutant of replenish: the credited budget is not clamped to size.
replenish_unclamped(self, tokens) ==
    IF IsSome(self.one_time_burst) /\ Unwrap(self.one_time_burst) > 0
    THEN [self EXCEPT !.one_time_burst = Some(Unwrap(self.one_time_burst) + tokens)]
    ELSE [self EXCEPT !.budget = self.budget + tokens]

\* TokenBucket::replenish
replenish(self, tokens) ==
    IF IsSome(self.one_time_burst) /\ Unwrap(self.one_time_burst) > 0
    THEN [self EXCEPT !.one_time_burst = Some(Unwrap(self.one_time_burst) + tokens)]
    ELSE [self EXCEPT !.budget = Min(self.budget + tokens, self.size)]

\* RateLimiter::make_bucket
make_bucket(total_capacity, burst, complete_refill_time_ms, t) ==
    IF total_capacity # 0 /\ complete_refill_time_ms # 0
    THEN Some(TokenBucketNew(total_capacity, burst, complete_refill_time_ms, t))
    ELSE None

-----------------------------------------------------------------------------
(* The vCPU threads (vmm/src/vstate.rs, GuestVcpu::run and run_emulation).      *)
(* Each thread installs its seccomp filter, waits on the thread barrier that   *)
(* it shares with its peers and the supervisor, dispatches the exits of        *)
(* fd.run() until one is fatal, and then writes 1 to its exit eventfd.         *)

Vcpus == 0..(NumVcpus - 1)

\* The port and MMIO addresses and the first data bytes the exits carry.
OTHER_IOPORT == MAGIC_IOPORT_SIGNAL_GUEST_BOOT_COMPLETE + 8
IoPorts == {MAGIC_IOPORT_SIGNAL_GUEST_BOOT_COMPLETE, OTHER_IOPORT}
DataBytes == {MAGIC_VALUE_SIGNAL_GUEST_BOOT_COMPLETE, 0}
MmioAddrs == {0}

Exit(kind, addr, data, errno) ==
    [ kind |-> kind, addr |-> addr, data |-> data, errno |-> errno ]

\* The errors of fd.run(): the two that mean "try again", and one other.
Errnos == {"EAGAIN", "EINTR", "EINVAL"}

\* What fd.run() can return: Ok(VcpuExit) or Err(errno).
VcpuExits ==
    {Exit("IoIn", OTHER_IOPORT, 0, "")}
    \cup {Exit("IoOut", a, d, "") : a \in IoPorts, d \in DataBytes}
    \cup {Exit("MmioRead", a, 0, "") : a \in MmioAddrs}
    \cup {Exit("MmioWrite", a, 0, "") : a \in MmioAddrs}
    \cup {Exit(k, 0, 0, "") : k \in {"Hlt", "Shutdown", "FailEntry", "InternalError",
                                     "SystemEvent"}}
    \cup {Exit("Err", 0, 0, e) : e \in Errnos}

\* The exits and errors after which run_emulation returns Err and the loop ends.
FatalKinds == {"Hlt", "Shutdown", "FailEntry", "InternalError", "SystemEvent"}
IsFatal(exit) ==
    \/ exit.kind \in FatalKinds
    \/ exit.kind = "Err" /\ exit.errno \notin {"EAGAIN", "EINTR"}

\* The result of run_emulation: Ok or Err, the counter it incremented, the bus
\* access it made and whether it logged the boot-complete line.
NoAccess == << >>
Access(bus, op, addr) == << [bus |-> bus, op |-> op, addr |-> addr] >>
Emulated(ok, counter, access, boot_log) ==
    [ ok |-> ok, counter |-> counter, access |-> access, boot_log |-> boot_log ]

\* Mutant of run_emulation: EINTR is handled as any other error of fd.run().
run_emulation_eintr_fatal(exit) ==
    CASE exit.kind = "IoIn" ->
            Emulated(TRUE, "exit_io_in", Access("io_bus", "read", exit.addr), FALSE)
      [] exit.kind = "IoOut" ->
            Emulated(TRUE, "exit_io_out", Access("io_bus", "write", exit.addr),
                     /\ exit.addr = MAGIC_IOPORT_SIGNAL_GUEST_BOOT_COMPLETE
                     /\ exit.data = MAGIC_VALUE_SIGNAL_GUEST_BOOT_COMPLETE)
      [] exit.kind = "MmioRead" ->
            Emulated(TRUE, "exit_mmio_read", Access("mmio_bus", "read", exit.addr), FALSE)
      [] exit.kind = "MmioWrite" ->
            Emulated(TRUE, "exit_mmio_write", Access("mmio_bus", "write", exit.addr), FALSE)
      [] exit.kind = "Hlt" -> Emulated(FALSE, "none", NoAccess, FALSE)
      [] exit.kind = "Shutdown" -> Emulated(FALSE, "none", NoAccess, FALSE)
      [] exit.kind = "FailEntry" -> Emulated(FALSE, "failures", NoAccess, FALSE)
      [] exit.kind = "InternalError" -> Emulated(FALSE, "failures", NoAccess, FALSE)
      [] exit.kind = "Err" ->
            IF exit.errno = "EAGAIN"
            THEN Emulated(TRUE, "none", NoAccess, FALSE)
            ELSE Emulated(FALSE, "failures", NoAccess, FALSE)
      [] OTHER -> Emulated(FALSE, "failures", NoAccess, FALSE)

\* Mutant of run_emulation: no exit and no error bumps the failure counter.
run_emulation_no_failure_metric(exit) ==
    CASE exit.kind = "IoIn" ->
            Emulated(TRUE, "exit_io_in", Access("io_bus", "read", exit.addr), FALSE)
      [] exit.kind = "IoOut" ->
            Emulated(TRUE, "exit_io_out", Access("io_bus", "write", exit.addr),
                     /\ exit.addr = MAGIC_IOPORT_SIGNAL_GUEST_BOOT_COMPLETE
                     /\ exit.data = MAGIC_VALUE_SIGNAL_GUEST_BOOT_COMPLETE)
      [] exit.kind = "MmioRead" ->
            Emulated(TRUE, "exit_mmio_read", Access("mmio_bus", "read", exit.addr), FALSE)
      [] exit.kind = "MmioWrite" ->
            Emulated(TRUE, "exit_mmio_write", Access("mmio_bus", "write", exit.addr), FALSE)
      [] exit.kind = "Err" /\ exit.errno \in {"EAGAIN", "EINTR"} ->
            Emulated(TRUE, "none", NoAccess, FALSE)
      [] OTHER -> Emulated(FALSE, "none", NoAccess, FALSE)

\* Mutant of run_emulation: an MMIO read is looked up on the port-I/O bus.
run_emulation_mmio_on_io_bus(exit) ==
    CASE exit.kind = "IoIn" ->
            Emulated(TRUE, "exit_io_in", Access("io_bus", "read", exit.addr), FALSE)
      [] exit.kind = "IoOut" ->
            Emulated(TRUE, "exit_io_out", Access("io_bus", "write", exit.addr),
                     /\ exit.addr = MAGIC_IOPORT_SIGNAL_GUEST_BOOT_COMPLETE
                     /\ exit.data = MAGIC_VALUE_SIGNAL_GUEST_BOOT_COMPLETE)
      [] exit.kind = "MmioRead" ->
            Emulated(TRUE, "exit_mmio_read", Access("io_bus", "read", exit.addr), FALSE)
      [] exit.kind = "MmioWrite" ->
            Emulated(TRUE, "exit_mmio_write", Access("mmio_bus", "write", exit.addr), FALSE)
      \* Hlt and Shutdown: logged and returned as errors, no counter
      [] exit.kind = "Hlt" -> Emulated(FALSE, "none", NoAccess, FALSE)
      [] exit.kind = "Shutdown" -> Emulated(FALSE, "none", NoAccess, FALSE)
      [] exit.kind = "FailEntry" -> Emulated(FALSE, "failures", NoAccess, FALSE)
      [] exit.kind = "InternalError" -> Emulated(FALSE, "failures", NoAccess, FALSE)
      [] exit.kind = "Err" ->
            IF exit.errno \in {"EAGAIN", "EINTR"}
            THEN Emulated(TRUE, "none", NoAccess, FALSE)
            ELSE Emulated(FALSE, "failures", NoAccess, FALSE)
      \* r => "Unexpected exit reason"
      [] OTHER -> Emulated(FALSE, "failures", NoAccess, FALSE)

\* Mutant of run_emulation: every write to the boot-complete port is logged as
\* boot-complete, whatever the byte written.
run_emulation_boot_log_any_value(exit) ==
    CASE exit.kind = "IoIn" ->
            Emulated(TRUE, "exit_io_in", Access("io_bus", "read", exit.addr), FALSE)
      [] exit.kind = "IoOut" ->
            Emulated(TRUE, "exit_io_out", Access("io_bus", "write", exit.addr),
                     exit.addr = MAGIC_IOPORT_SIGNAL_GUEST_BOOT_COMPLETE)
      [] exit.kind = "MmioRead" ->
            Emulated(TRUE, "exit_mmio_read", Access("mmio_bus", "read", exit.addr), FALSE)
      [] exit.kind = "MmioWrite" ->
            Emulated(TRUE, "exit_mmio_write", Access("mmio_bus", "write", exit.addr), FALSE)
      \* Hlt and Shutdown: logged and returned as errors, no counter
      [] exit.kind = "Hlt" -> Emulated(FALSE, "none", NoAccess, FALSE)
      [] exit.kind = "Shutdown" -> Emulated(FALSE, "none", NoAccess, FALSE)
      [] exit.kind = "FailEntry" -> Emulated(FALSE, "failures", NoAccess, FALSE)
      [] exit.kind = "InternalError" -> Emulated(FALSE, "failures", NoAccess, FALSE)
      [] exit.kind = "Err" ->
            IF exit.errno \in {"EAGAIN", "EINTR"}
            THEN Emulated(TRUE, "none", NoAccess, FALSE)
            ELSE Emulated(FALSE, "failures", NoAccess, FALSE)
      \* r => "Unexpected exit reason"
      [] OTHER -> Emulated(FALSE, "failures", NoAccess, FALSE)

\* Mutant of run_emulation: Hlt is logged and the loop goes on.
run_emulation_hlt_ok(exit) ==
    CASE exit.kind = "IoIn" ->
            Emulated(TRUE, "exit_io_in", Access("io_bus", "read", exit.addr), FALSE)
      [] exit.kind = "IoOut" ->
            Emulated(TRUE, "exit_io_out", Access("io_bus", "write", exit.addr),
                     /\ exit.addr = MAGIC_IOPORT_SIGNAL_GUEST_BOOT_COMPLETE
                     /\ exit.data = MAGIC_VALUE_SIGNAL_GUEST_BOOT_COMPLETE)
      [] exit.kind = "MmioRead" ->
            Emulated(TRUE, "exit_mmio_read", Access("mmio_bus", "read", exit.addr), FALSE)
      [] exit.kind = "MmioWrite" ->
            Emulated(TRUE, "exit_mmio_write", Access("mmio_bus", "write", exit.addr), FALSE)
      \* Hlt and Shutdown: logged and returned as errors, no counter
      [] exit.kind = "Hlt" -> Emulated(TRUE, "none", NoAccess, FALSE)
      [] exit.kind = "Shutdown" -> Emulated(FALSE, "none", NoAccess, FALSE)
      [] exit.kind = "FailEntry" -> Emulated(FALSE, "failures", NoAccess, FALSE)
      [] exit.kind = "InternalError" -> Emulated(FALSE, "failures", NoAccess, FALSE)
      [] exit.kind = "Err" ->
            IF exit.errno \in {"EAGAIN", "EINTR"}
            THEN Emulated(TRUE, "none", NoAccess, FALSE)
            ELSE Emulated(FALSE, "failures", NoAccess, FALSE)
      \* r => "Unexpected exit reason"
      [] OTHER -> Emulated(FALSE, "failures", NoAccess, FALSE)

\* GuestVcpu::run_emulation, as a function of what fd.run() returned.
run_emulation(exit) ==
    CASE exit.kind = "IoIn" ->
            Emulated(TRUE, "exit_io_in", Access("io_bus", "read", exit.addr), FALSE)
      [] exit.kind = "IoOut" ->
            Emulated(TRUE, "exit_io_out", Access("io_bus", "write", exit.addr),
                     /\ exit.addr = MAGIC_IOPORT_SIGNAL_GUEST_BOOT_COMPLETE
                     /\ exit.data = MAGIC_VALUE_SIGNAL_GUEST_BOOT_COMPLETE)
      [] exit.kind = "MmioRead" ->
            Emulated(TRUE, "exit_mmio_read", Access("mmio_bus", "read", exit.addr), FALSE)
      [] exit.kind = "MmioWrite" ->
            Emulated(TRUE, "exit_mmio_write", Access("mmio_bus", "write", exit.addr), FALSE)
      \* Hlt and Shutdown: logged and returned as errors, no counter
      [] exit.kind = "Hlt" -> Emulated(FALSE, "none", NoAccess, FALSE)
      [] exit.kind = "Shutdown" -> Emulated(FALSE, "none", NoAccess, FALSE)
      [] exit.kind = "FailEntry" -> Emulated(FALSE, "failures", NoAccess, FALSE)
      [] exit.kind = "InternalError" -> Emulated(FALSE, "failures", NoAccess, FALSE)
      [] exit.kind = "Err" ->
            IF exit.errno \in {"EAGAIN", "EINTR"}
            THEN Emulated(TRUE, "none", NoAccess, FALSE)
            ELSE Emulated(FALSE, "failures", NoAccess, FALSE)
      \* r => "Unexpected exit reason"
      [] OTHER -> Emulated(FALSE, "failures", NoAccess, FALSE)

\* METRICS.vcpu.<counter>.inc()
Inc(m, counter) == IF counter = "none" THEN m ELSE [m EXCEPT ![counter] = @ + 1]

NoExit == Exit("", 0, 0, "")
NoEmulation == Emulated(TRUE, "none", NoAccess, FALSE)

VLast(vcpu, step, exit, emulated) ==
    [ vcpu |-> vcpu, step |-> step, exit |-> exit, emulated |-> emulated ]

\* The threads as spawned: each about to install its filter, nobody at the
\* barrier, which was made for the vCPU threads and the supervisor.
InitVcpu ==
    /\ pc = [i \in Vcpus |-> "seccomp"]
    /\ seccomp = [i \in Vcpus |-> FALSE]
    /\ runs = [i \in Vcpus |-> 0]
    /\ barrier = [n |-> NumVcpus + 1, count |-> 0, generation |-> 0]
    /\ supervisor = "setup"
    /\ exit_evt = [i \in Vcpus |-> 0]
    /\ metrics = [ failures |-> 0, exit_io_in |-> 0, exit_io_out |-> 0,
                   exit_mmio_read |-> 0, exit_mmio_write |-> 0 ]
    /\ vlast = VLast(0, "spawn", NoExit, NoEmulation)

RECURSIVE SumRuns(_)
SumRuns(S) == IF S = {} THEN 0 ELSE LET i == CHOOSE j \in S : TRUE IN runs[i] + SumRuns(S \ {i})

\* The calls of fd.run() made so far by all the threads.
TotalRuns == SumRuns(Vcpus)

\* Barrier::wait: the arrival of one participant. The last one to arrive opens
\* the barrier for all and starts the next generation.
BarrierArrive(b) ==
    IF b.count + 1 < b.n
    THEN [b EXCEPT !.count = @ + 1]
    ELSE [b EXCEPT !.count = 0, !.generation = @ + 1]

\* run: set_seccomp_level(seccomp_level).expect(...). A failure panics the thread.
run_seccomp(i) ==
    /\ pc[i] = "seccomp"
    /\ \E ok \in BOOLEAN :
        /\ seccomp' = [seccomp EXCEPT ![i] = ok]
        /\ pc' = [pc EXCEPT ![i] = IF ok THEN "barrier" ELSE "panicked"]
    /\ vlast' = VLast(i, "seccomp", NoExit, NoEmulation)
    /\ UNCHANGED <<runs, barrier, supervisor, exit_evt, metrics>>

\* Mutant of run_barrier_wait: the thread goes on without waiting for the others.
run_barrier_nowait(i) ==
    /\ pc[i] = "barrier"
    /\ barrier' = BarrierArrive(barrier)
    /\ pc' = [pc EXCEPT ![i] = "running"]
    /\ vlast' = VLast(i, "barrier_wait", NoExit, NoEmulation)
    /\ UNCHANGED <<seccomp, runs, supervisor, exit_evt, metrics>>

\* run: thread_barrier.wait(), the arrival.
run_barrier_wait(i) ==
    /\ pc[i] = "barrier"
    /\ barrier' = BarrierArrive(barrier)
    /\ pc' = [pc EXCEPT ![i] = "waiting"]
    /\ vlast' = VLast(i, "barrier_wait", NoExit, NoEmulation)
    /\ UNCHANGED <<seccomp, runs, supervisor, exit_evt, metrics>>

\* run: thread_barrier.wait() returns once the barrier has opened.
run_barrier_pass(i) ==
    /\ pc[i] = "waiting"
    /\ barrier.generation > 0
    /\ pc' = [pc EXCEPT ![i] = "running"]
    /\ vlast' = VLast(i, "barrier_pass", NoExit, NoEmulation)
    /\ UNCHANGED <<seccomp, runs, barrier, supervisor, exit_evt, metrics>>

\* Mutant of run_loop: a fatal exit of one vCPU ends the loop of every vCPU.
run_loop_ends_all(i) ==
    /\ pc[i] = "running"
    /\ TotalRuns < MaxRuns
    /\ \E exit \in VcpuExits :
        LET emulated == run_emulation(exit) IN
        /\ runs' = [runs EXCEPT ![i] = @ + 1]
        /\ metrics' = Inc(metrics, emulated.counter)
        /\ pc' = IF emulated.ok THEN pc
                 ELSE [j \in Vcpus |-> IF pc[j] = "running" THEN "signal" ELSE pc[j]]
        /\ vlast' = VLast(i, "run", exit, emulated)
    /\ UNCHANGED <<seccomp, barrier, supervisor, exit_evt>>

\* run: one turn of `while self.run_emulation().is_ok() {}`.
run_loop(i) ==
    /\ pc[i] = "running"
    /\ TotalRuns < MaxRuns
    /\ \E exit \in VcpuExits :
        LET emulated == run_emulation(exit) IN
        /\ runs' = [runs EXCEPT ![i] = @ + 1]
        /\ metrics' = Inc(metrics, emulated.counter)
        /\ pc' = [pc EXCEPT ![i] = IF emulated.ok THEN "running" ELSE "signal"]
        /\ vlast' = VLast(i, "run", exit, emulated)
    /\ UNCHANGED <<seccomp, barrier, supervisor, exit_evt>>

\* Mutant of run_signal: the thread goes back to the loop after the write.
run_signal_resume(i) ==
    /\ pc[i] = "signal"
    /\ \E ok \in BOOLEAN :
        /\ exit_evt' = [exit_evt EXCEPT ![i] = IF ok THEN @ + 1 ELSE @]
        /\ metrics' = Inc(metrics, IF ok THEN "none" ELSE "failures")
        /\ vlast' = VLast(i, "write", NoExit, Emulated(ok, "none", NoAccess, FALSE))
    /\ pc' = [pc EXCEPT ![i] = "running"]
    /\ UNCHANGED <<seccomp, runs, barrier, supervisor>>

\* run: vcpu_exit_evt.write(1) after the loop; a failed write is counted and logged.
run_signal(i) ==
    /\ pc[i] = "signal"
    /\ \E ok \in BOOLEAN :
        /\ exit_evt' = [exit_evt EXCEPT ![i] = IF ok THEN @ + 1 ELSE @]
        /\ metrics' = Inc(metrics, IF ok THEN "none" ELSE "failures")
        /\ vlast' = VLast(i, "write", NoExit, Emulated(ok, "none", NoAccess, FALSE))
    /\ pc' = [pc EXCEPT ![i] = "exited"]
    /\ UNCHANGED <<seccomp, runs, barrier, supervisor>>

\* The supervisor: barrier.wait() once the threads are spawned.
supervisor_wait ==
    /\ supervisor = "setup"
    /\ barrier' = BarrierArrive(barrier)
    /\ supervisor' = "waiting"
    /\ UNCHANGED <<pc, seccomp, runs, exit_evt, metrics, vlast>>

supervisor_pass ==
    /\ supervisor = "waiting"
    /\ barrier.generation > 0
    /\ supervisor' = "released"
    /\ UNCHANGED <<pc, seccomp, runs, barrier, exit_evt, metrics, vlast>>

-----------------------------------------------------------------------------
(* The VM (vmm/src/vstate.rs, GuestVm) and the kernel's side of its handle.     *)

Archs == {"x86_64", "aarch64"}

\* The GuestMemory objects handed to memory_init: two of each number of regions.
GuestMemories == { [id |-> k, num_regions |-> n] : k \in 1..2, n \in 1..MaxRegions }

\* The interrupt lines of the three eventfds that setup_irqchip registers, in order.
IrqfdGsis == << 4, 3, 1 >>

\* The fd of the VGIC device.
GIC_FD == "gic_fd"

\* ret is "Ok" or the name of the Error returned, errno the io::Error it wraps.
VmLast(op, arg, ret, errno) == [ op |-> op, arg |-> arg, ret |-> ret, errno |-> errno ]

\* A CPUID table: the host's leaves and the rewrites made to them, in order.
CpuId(host) == [ host |-> host, rewrites |-> << >> ]

\* The tables the driver can report, one per kind of host.
HostCpuIds == { CpuId(h) : h \in {"intel", "amd"} }

\* GuestVm::new on a driver that reports `table` and allows m slots: the table
\* is cached (x86_64), there is no guest memory, no handle, no vCPU and, in the
\* kernel, a VM with nothing installed or created.
NewVm(a, m, table) ==
    /\ arch = a
    /\ max_memslots = m
    /\ hyp_cpuid = table
    /\ supported_cpuid = IF a = "x86_64" THEN Some(table) ELSE None
    /\ guest_mem = None
    /\ irqchip_handle = None
    /\ kvm = [ slots |-> << >>, tss |-> FALSE, irqchip |-> FALSE, gic |-> None,
               vcpus |-> {}, irqfds |-> {} ]
    /\ guest_vcpus = [i \in Vcpus |-> None]
    /\ vm_last = VmLast("new", 0, "Ok", "")

InitVm == \E a \in Archs, m \in 1..MaxMemSlots : NewVm(a, m, CpuId("intel"))

\* The VM of the specifications that are about something else: created, not set up.
IdleVm == NewVm("x86_64", 1, CpuId("intel"))

\* The kernel: set_user_memory_region installs or replaces slot `slot`.
set_user_memory_region(slots, slot, region) ==
    [ sl \in DOMAIN slots \cup {slot} |-> IF sl = slot THEN region ELSE slots[sl] ]

\* GuestMemory::with_regions with the closure of memory_init: the regions are
\* installed in index order, region `index` as slot `index`, up to the first
\* one the kernel refuses; the first `installed` of them are accepted.
RECURSIVE with_regions(_, _, _)
with_regions(slots, gm, installed) ==
    IF installed = 0 THEN slots
    ELSE LET index == installed - 1
         IN  set_user_memory_region(with_regions(slots, gm, index), index,
                                    [mem |-> gm.id, index |-> index])

\* Mutant of memory_init: the regions are installed before their number is checked.
memory_init_check_late(gm) ==
    \E installed \in 0..gm.num_regions, tss_ok \in BOOLEAN :
        LET allOk == installed = gm.num_regions
            fits == gm.num_regions <= max_memslots
            tss == fits /\ allOk /\ arch = "x86_64"
        IN  /\ kvm' = [kvm EXCEPT !.slots = with_regions(@, gm, installed),
                                  !.tss = @ \/ (tss /\ tss_ok)]
            /\ guest_mem' = IF fits /\ allOk THEN Some(gm) ELSE guest_mem
            /\ vm_last' = VmLast("memory_init", gm,
                                 IF ~fits THEN "NotEnoughMemorySlots"
                                 ELSE IF ~allOk THEN "SetUserMemoryRegion"
                                 ELSE IF tss /\ ~tss_ok THEN "VmSetup"
                                 ELSE "Ok", "")
            /\ UNCHANGED <<hyp_cpuid, supported_cpuid, guest_vcpus, arch, max_memslots, irqchip_handle>>

\* Mutant of memory_init: one region more than the driver allows is let through.
memory_init_off_by_one(gm) ==
    IF gm.num_regions > max_memslots + 1
    THEN /\ vm_last' = VmLast("memory_init", gm, "NotEnoughMemorySlots", "")
         /\ UNCHANGED <<hyp_cpuid, supported_cpuid, guest_vcpus, arch, max_memslots, guest_mem, irqchip_handle, kvm>>
    ELSE \E installed \in 0..gm.num_regions, tss_ok \in BOOLEAN :
            LET allOk == installed = gm.num_regions
                tss == allOk /\ arch = "x86_64"
            IN  /\ kvm' = [kvm EXCEPT !.slots = with_regions(@, gm, installed),
                                      !.tss = @ \/ (tss /\ tss_ok)]
                /\ guest_mem' = IF allOk THEN Some(gm) ELSE guest_mem
                /\ vm_last' = VmLast("memory_init", gm,
                                     IF ~allOk THEN "SetUserMemoryRegion"
                                     ELSE IF tss /\ ~tss_ok THEN "VmSetup"
                                     ELSE "Ok", "")
                /\ UNCHANGED <<hyp_cpuid, supported_cpuid, guest_vcpus, arch, max_memslots, irqchip_handle>>

\* GuestVm::memory_init(guest_mem, hyp_context)
memory_init(gm) ==
    IF gm.num_regions > max_memslots
    THEN /\ vm_last' = VmLast("memory_init", gm, "NotEnoughMemorySlots", "")
         /\ UNCHANGED <<hyp_cpuid, supported_cpuid, guest_vcpus, arch, max_memslots, guest_mem, irqchip_handle, kvm>>
    ELSE \E installed \in 0..gm.num_regions, tss_ok \in BOOLEAN :
            LET allOk == installed = gm.num_regions
                tss == allOk /\ arch = "x86_64"
            IN  /\ kvm' = [kvm EXCEPT !.slots = with_regions(@, gm, installed),
                                      !.tss = @ \/ (tss /\ tss_ok)]
                /\ guest_mem' = IF allOk THEN Some(gm) ELSE guest_mem
                /\ vm_last' = VmLast("memory_init", gm,
                                     IF ~allOk THEN "SetUserMemoryRegion"
                                     ELSE IF tss /\ ~tss_ok THEN "VmSetup"
                                     ELSE "Ok", "")
                /\ UNCHANGED <<hyp_cpuid, supported_cpuid, guest_vcpus, arch, max_memslots, irqchip_handle>>

\* The kernel: create_irq_chip on x86_64. A VM has at most one irq chip, and
\* the chip cannot be created once a vCPU exists.
create_irq_chip(k) ==
    IF k.irqchip THEN [kvm |-> k, errno |-> "EEXIST"]
    ELSE IF k.vcpus # {} THEN [kvm |-> k, errno |-> "EINVAL"]
    ELSE [kvm |-> [k EXCEPT !.irqchip = TRUE], errno |-> ""]

\* The kernel: register_irqfd for the first `registered` of the three eventfds;
\* the next one, if any, is refused (EBADF stands for its io::Error).
register_irqfds(k, registered) ==
    [k EXCEPT !.irqfds = @ \cup {IrqfdGsis[n] : n \in 1..registered}]

\* Mutant of setup_irqchip_x86_64: the error of create_irq_chip is dropped.
setup_irqchip_x86_64_unchecked ==
    /\ arch = "x86_64"
    /\ LET created == create_irq_chip(kvm) IN
        \E registered \in 0..Len(IrqfdGsis) :
            /\ kvm' = register_irqfds(created.kvm, registered)
            /\ vm_last' = IF registered = Len(IrqfdGsis)
                          THEN VmLast("setup_irqchip", 0, "Ok", "")
                          ELSE VmLast("setup_irqchip", 0, "Irq", "EBADF")
    /\ UNCHANGED <<hyp_cpuid, supported_cpuid, guest_vcpus, arch, max_memslots, guest_mem, irqchip_handle>>

\* Mutant of setup_irqchip_x86_64: the eventfds are registered before the chip
\* is created.
setup_irqchip_x86_64_irqfds_first ==
    /\ arch = "x86_64"
    /\ \E registered \in 0..Len(IrqfdGsis) :
        IF registered < Len(IrqfdGsis)
        THEN /\ kvm' = register_irqfds(kvm, registered)
             /\ vm_last' = VmLast("setup_irqchip", 0, "Irq", "EBADF")
        ELSE LET created == create_irq_chip(register_irqfds(kvm, registered)) IN
             /\ kvm' = created.kvm
             /\ vm_last' = IF created.errno # ""
                           THEN VmLast("setup_irqchip", 0, "VmSetup", created.errno)
                           ELSE VmLast("setup_irqchip", 0, "Ok", "")
    /\ UNCHANGED <<hyp_cpuid, supported_cpuid, guest_vcpus, arch, max_memslots, guest_mem, irqchip_handle>>

\* GuestVm::setup_irqchip(com_evt_1_3, com_evt_2_4, kbd_evt), x86_64
setup_irqchip_x86_64 ==
    /\ arch = "x86_64"
    /\ LET created == create_irq_chip(kvm) IN
        IF created.errno # ""
        THEN /\ vm_last' = VmLast("setup_irqchip", 0, "VmSetup", created.errno)
             /\ UNCHANGED kvm
        ELSE \E registered \in 0..Len(IrqfdGsis) :
                /\ kvm' = register_irqfds(created.kvm, registered)
                /\ vm_last' = IF registered = Len(IrqfdGsis)
                              THEN VmLast("setup_irqchip", 0, "Ok", "")
                              ELSE VmLast("setup_irqchip", 0, "Irq", "EBADF")
    /\ UNCHANGED <<hyp_cpuid, supported_cpuid, guest_vcpus, arch, max_memslots, guest_mem, irqchip_handle>>

\* arch::aarch64::gic::create_gicv3(&self.fd, vcpu_count): the kernel creates
\* the VGIC device unless the VM has one. `env_ok` is the kernel's answer for a
\* VM that has no vCPU yet.
create_gicv3(k, vcpu_count, env_ok) ==
    IF IsSome(k.gic) THEN [kvm |-> k, fd |-> None, errno |-> "EEXIST"]
    ELSE IF k.vcpus = {} /\ ~env_ok THEN [kvm |-> k, fd |-> None, errno |-> "EINVAL"]
    ELSE [kvm |-> [k EXCEPT !.gic = Some(GIC_FD)], fd |-> Some(GIC_FD), errno |-> ""]

\* Mutant of setup_irqchip_aarch64: the handle is assigned whatever create_gicv3
\* returned, so a failure clears it.
setup_irqchip_aarch64_assign_first(vcpu_count) ==
    /\ arch = "aarch64"
    /\ \E env_ok \in BOOLEAN :
        LET created == create_gicv3(kvm, vcpu_count, env_ok) IN
        /\ kvm' = created.kvm
        /\ irqchip_handle' = created.fd
        /\ vm_last' = IF created.errno # ""
                      THEN VmLast("setup_irqchip", vcpu_count, "SetupGIC", created.errno)
                      ELSE VmLast("setup_irqchip", vcpu_count, "Ok", "")
    /\ UNCHANGED <<hyp_cpuid, supported_cpuid, guest_vcpus, arch, max_memslots, guest_mem>>

\* GuestVm::setup_irqchip(vcpu_count), aarch64
setup_irqchip_aarch64(vcpu_count) ==
    /\ arch = "aarch64"
    /\ \E env_ok \in BOOLEAN :
        LET created == create_gicv3(kvm, vcpu_count, env_ok) IN
        IF created.errno # ""
        THEN /\ vm_last' = VmLast("setup_irqchip", vcpu_count, "SetupGIC", created.errno)
             /\ UNCHANGED <<kvm, irqchip_handle>>
        ELSE /\ kvm' = created.kvm
             /\ irqchip_handle' = created.fd
             /\ vm_last' = VmLast("setup_irqchip", vcpu_count, "Ok", "")
    /\ UNCHANGED <<hyp_cpuid, supported_cpuid, guest_vcpus, arch, max_memslots, guest_mem>>

\* The kernel: create_vcpu(id) refuses an id that is taken.
create_vcpu(k, id) ==
    IF id \in k.vcpus THEN [kvm |-> k, errno |-> "EEXIST"]
    ELSE [kvm |-> [k EXCEPT !.vcpus = @ \cup {id}], errno |-> ""]

\* GuestVm::get_supported_cpuid: a clone of the cached table.
get_supported_cpuid == supported_cpuid

\* The vCPU handle as the kernel makes it: nothing installed or programmed.
NewVcpuFd == [ cpuid2 |-> None, init |-> None, programmed |-> {} ]

\* GuestVcpu::new(id, vm, ...): vm.fd.create_vcpu(id).map_err(Error::Vcpu)?, then
\* the struct, whose cpuid is the one supported by the VM (x86_64).
GuestVcpuNew(id) ==
    /\ LET created == create_vcpu(kvm, id) IN
        /\ kvm' = created.kvm
        /\ IF created.errno # ""
           THEN /\ vm_last' = VmLast("create_vcpu", id, "Vcpu", created.errno)
                /\ UNCHANGED guest_vcpus
           ELSE /\ vm_last' = VmLast("create_vcpu", id, "Ok", "")
                /\ guest_vcpus' = [guest_vcpus EXCEPT ![id] =
                        Some([ id |-> id, cpuid |-> get_supported_cpuid, fd |-> NewVcpuFd ])]
    /\ UNCHANGED <<hyp_cpuid, supported_cpuid, arch, max_memslots, guest_mem, irqchip_handle>>

\* VmConfig: vcpu_count, ht_enabled and cpu_template, each of which may be unset
\* (VmConfig::default() has a vcpu count, ht_enabled Some(false) and no template).
MachineConfigs ==
    { [ vcpu_count |-> c, ht_enabled |-> h, cpu_template |-> t ] :
        c \in {None, Some(NumVcpus)},
        h \in {None, Some(FALSE)},
        t \in {None, Some("T2"), Some("C3")} }

\* filter_cpuid(id, vcpu_count, ht_enabled, &mut cpuid): the leaves are rewritten
\* for the topology.
filter_cpuid(id, vcpu_count, ht_enabled, cpuid) ==
    [cpuid EXCEPT !.rewrites = Append(@, <<"filter_cpuid", id, vcpu_count, ht_enabled>>)]

\* t2::set_cpuid_entries / c3::set_cpuid_entries on the entries of cpuid.
set_cpuid_entries(template, cpuid) ==
    [cpuid EXCEPT !.rewrites = Append(@, <<template>>)]

\* The configure calls that got as far as rewriting a table, over all vCPUs.
RECURSIVE SumFilters(_)
SumFilters(S) ==
    IF S = {} THEN 0
    ELSE LET i == CHOOSE j \in S : TRUE
             n == IF IsSome(guest_vcpus[i]) /\ IsSome(Unwrap(guest_vcpus[i]).cpuid)
                  THEN Cardinality({ k \in DOMAIN Unwrap(Unwrap(guest_vcpus[i]).cpuid).rewrites :
                          Unwrap(Unwrap(guest_vcpus[i]).cpuid).rewrites[k][1] = "filter_cpuid" })
                  ELSE 0
         IN  n + SumFilters(S \ {i})

\* The calls of the vCPU handle and of the helpers that configure can see fail.
X86FailPoints == {"filter_cpuid", "set_cpuid2", "setup_msrs", "setup_regs", "setup_fpu",
                  "setup_sregs", "set_lint"}
Aarch64FailPoints == {"get_preferred_target", "vcpu_init", "setup_regs"}
FailPoints == {"none"} \cup (IF arch = "x86_64" THEN X86FailPoints ELSE Aarch64FailPoints)

Configured(self, ret) == [ vcpu |-> self, ret |-> ret ]

\* The vCPU handle after one more register set-up helper has gone through.
Programmed(self, what) == [self EXCEPT !.fd.programmed = @ \cup {what}]

\* Mutant of configure_x86_64: the template is applied before the topology filter.
configure_x86_64_template_first(self, machine_config, mem, fail_at) ==
    IF machine_config.vcpu_count = None THEN Configured(self, "VcpuCountNotInitialized")
    ELSE IF machine_config.ht_enabled = None THEN Configured(self, "HTNotInitialized")
    ELSE IF fail_at = "filter_cpuid" THEN Configured(self, "CpuId")
    ELSE
    LET own == Unwrap(self.cpuid)
        templated == IF IsSome(machine_config.cpu_template)
                     THEN set_cpuid_entries(Unwrap(machine_config.cpu_template), own)
                     ELSE own
        filtered == filter_cpuid(self.id, Unwrap(machine_config.vcpu_count),
                                 Unwrap(machine_config.ht_enabled), templated)
        v1 == [self EXCEPT !.cpuid = Some(filtered)]
        v2 == [v1 EXCEPT !.fd.cpuid2 = Some(filtered)]
        v3 == Programmed(v2, "msrs")
        v4 == Programmed(v3, "regs")
        v5 == Programmed(v4, "fpu")
        v6 == Programmed(v5, "sregs")
        v7 == Programmed(v6, "lint")
    IN  IF fail_at = "set_cpuid2" THEN Configured(v1, "SetSupportedCpusFailed")
        ELSE IF fail_at = "setup_msrs" THEN Configured(v2, "MSRSConfiguration")
        ELSE IF mem = None THEN Configured(v3, "GuestMemory")
        ELSE IF fail_at = "setup_regs" THEN Configured(v3, "REGSConfiguration")
        ELSE IF fail_at = "setup_fpu" THEN Configured(v4, "FPUConfiguration")
        ELSE IF fail_at = "setup_sregs" THEN Configured(v5, "SREGSConfiguration")
        ELSE IF fail_at = "set_lint" THEN Configured(v6, "LocalIntConfiguration")
        ELSE Configured(v7, "Ok")

\* GuestVcpu::configure(machine_config, kernel_start_addr, vm) on x86_64, as a
\* function of the vCPU, the VM's guest memory and the call that fails, if any.
configure_x86_64(self, machine_config, mem, fail_at) ==
    IF machine_config.vcpu_count = None THEN Configured(self, "VcpuCountNotInitialized")
    ELSE IF machine_config.ht_enabled = None THEN Configured(self, "HTNotInitialized")
    ELSE IF fail_at = "filter_cpuid" THEN Configured(self, "CpuId")
    ELSE
    LET filtered == filter_cpuid(self.id, Unwrap(machine_config.vcpu_count),
                                 Unwrap(machine_config.ht_enabled), Unwrap(self.cpuid))
        templated == IF IsSome(machine_config.cpu_template)
                     THEN set_cpuid_entries(Unwrap(machine_config.cpu_template), filtered)
                     ELSE filtered
        v1 == [self EXCEPT !.cpuid = Some(templated)]
        v2 == [v1 EXCEPT !.fd.cpuid2 = Some(templated)]
        v3 == Programmed(v2, "msrs")
        v4 == Programmed(v3, "regs")
        v5 == Programmed(v4, "fpu")
        v6 == Programmed(v5, "sregs")
        v7 == Programmed(v6, "lint")
    IN  IF fail_at = "set_cpuid2" THEN Configured(v1, "SetSupportedCpusFailed")
        ELSE IF fail_at = "setup_msrs" THEN Configured(v2, "MSRSConfiguration")
        ELSE IF mem = None THEN Configured(v3, "GuestMemory")
        ELSE IF fail_at = "setup_regs" THEN Configured(v3, "REGSConfiguration")
        ELSE IF fail_at = "setup_fpu" THEN Configured(v4, "FPUConfiguration")
        ELSE IF fail_at = "setup_sregs" THEN Configured(v5, "SREGSConfiguration")
        ELSE IF fail_at = "set_lint" THEN Configured(v6, "LocalIntConfiguration")
        ELSE Configured(v7, "Ok")

\* GuestVcpu::configure(_machine_config, kernel_load_addr, vm) on aarch64.
configure_aarch64(self, machine_config, mem, fail_at) ==
    IF mem = None THEN Configured(self, "GuestMemory")
    ELSE IF fail_at = "get_preferred_target" THEN Configured(self, "VcpuArmPreferredTarget")
    ELSE
    LET features == {"PSCI_0_2"} \cup (IF self.id > 0 THEN {"POWER_OFF"} ELSE {})
        v1 == [self EXCEPT !.fd.init = Some(features)]
        v2 == Programmed(v1, "regs")
    IN  IF fail_at = "vcpu_init" THEN Configured(self, "VcpuArmInit")
        ELSE IF fail_at = "setup_regs" THEN Configured(v1, "REGSConfiguration")
        ELSE Configured(v2, "Ok")

\* Mutant of configure: the vCPU works on the VM's table, not on a copy of it,
\* so the rewritten table is the VM's too.
configure_shared_table(id, machine_config, fail_at) ==
    /\ IsSome(guest_vcpus[id])
    /\ arch = "x86_64" => SumFilters(Vcpus) < MaxConfigures
    /\ LET self == Unwrap(guest_vcpus[id])
           done == IF arch = "x86_64"
                   THEN configure_x86_64(self, machine_config, guest_mem, fail_at)
                   ELSE configure_aarch64(self, machine_config, guest_mem, fail_at)
       IN  /\ guest_vcpus' = [guest_vcpus EXCEPT ![id] = Some(done.vcpu)]
           /\ supported_cpuid' = done.vcpu.cpuid
           /\ vm_last' = VmLast("configure", id, done.ret, "")
    /\ UNCHANGED <<hyp_cpuid, arch, max_memslots, guest_mem, irqchip_handle, kvm>>

\* vcpu.configure(&machine_config, kernel_addr, &vm) on the vCPU of that id, for
\* the architecture the VMM was built for.
configure(id, machine_config, fail_at) ==
    /\ IsSome(guest_vcpus[id])
    /\ arch = "x86_64" => SumFilters(Vcpus) < MaxConfigures
    /\ LET self == Unwrap(guest_vcpus[id])
           done == IF arch = "x86_64"
                   THEN configure_x86_64(self, machine_config, guest_mem, fail_at)
                   ELSE configure_aarch64(self, machine_config, guest_mem, fail_at)
       IN  /\ guest_vcpus' = [guest_vcpus EXCEPT ![id] = Some(done.vcpu)]
           /\ vm_last' = VmLast("configure", id, done.ret, "")
    /\ UNCHANGED <<hyp_cpuid, supported_cpuid, arch, max_memslots, guest_mem,
                   irqchip_handle, kvm>>

-----------------------------------------------------------------------------
(* The record of the last operation. *)

NoErr == << >>

Last(op, token_type, tokens, ret, err, bytes, opsArg) ==
    [ op |-> op, token_type |-> token_type, tokens |-> tokens,
      ret |-> ret, err |-> err, bytes |-> bytes, ops |-> opsArg ]

\* The history variables before any operation, and where no history is kept.
NoHistory ==
    /\ prev = None
    /\ drained_at = [k \in TokenTypes |-> None]
    /\ supplied = None
    /\ pending = None

-----------------------------------------------------------------------------
(* RateLimiter::new with arguments drawn from the bounded sets. *)

Init ==
    \E b \in BytesConfigs, o \in OpsConfigs :
        /\ now = 0
        /\ bandwidth = make_bucket(b.size, b.one_time_burst, b.refill_time, 0)
        /\ ops = make_bucket(o.size, o.one_time_burst, o.refill_time, 0)
        /\ timer_active = FALSE
        /\ timer_deadline = None
        /\ timer_expirations = 0
        /\ last = Last("new", "Bytes", 0, TRUE, NoErr, FALSE, FALSE)
        /\ NoHistory
        /\ InitVcpu
        /\ IdleVm

\* The bucket of a token kind.
Bucket(token_type) == IF token_type = "Bytes" THEN bandwidth ELSE ops
Present(token_type) == IsSome(Bucket(token_type))
TB(token_type) == Unwrap(Bucket(token_type))

\* Mutant of consume: a kind without a bucket is refused instead of granted.
consume_absent_refused(tokens, token_type) ==
    LET token_bucket == Bucket(token_type)
        r == IF IsSome(token_bucket)
             THEN reduce(Unwrap(token_bucket), tokens, now)
             ELSE [ bucket |-> None, ok |-> FALSE ]
        success == r.ok
    IN  /\ IF IsSome(token_bucket)
           THEN IF token_type = "Bytes"
                THEN bandwidth' = Some(r.bucket) /\ ops' = ops
                ELSE ops' = Some(r.bucket) /\ bandwidth' = bandwidth
           ELSE UNCHANGED <<bandwidth, ops>>
        /\ IF ~success /\ ~timer_active
           THEN /\ timer_deadline' =
                       Some(now + REFILL_TIMER_INTERVAL_MS * NANOSEC_IN_ONE_MILLISEC)
                /\ timer_expirations' = 0
                /\ timer_active' = TRUE
           ELSE UNCHANGED <<timer_deadline, timer_expirations, timer_active>>
        /\ last' = Last("consume", token_type, tokens, success, NoErr, FALSE, FALSE)
        /\ UNCHANGED now

\* Mutant of consume: a refused request arms the timer without setting timer_active.
consume_arm_no_flag(tokens, token_type) ==
    LET token_bucket == Bucket(token_type)
        r == IF IsSome(token_bucket)
             THEN reduce(Unwrap(token_bucket), tokens, now)
             ELSE [ bucket |-> None, ok |-> TRUE ]
        success == r.ok
    IN  /\ IF IsSome(token_bucket)
           THEN IF token_type = "Bytes"
                THEN bandwidth' = Some(r.bucket) /\ ops' = ops
                ELSE ops' = Some(r.bucket) /\ bandwidth' = bandwidth
           ELSE UNCHANGED <<bandwidth, ops>>
        /\ IF ~success /\ ~timer_active
           THEN /\ timer_deadline' =
                       Some(now + REFILL_TIMER_INTERVAL_MS * NANOSEC_IN_ONE_MILLISEC)
                /\ timer_expirations' = 0
                /\ timer_active' = timer_active
           ELSE UNCHANGED <<timer_deadline, timer_expirations, timer_active>>
        /\ last' = Last("consume", token_type, tokens, success, NoErr, FALSE, FALSE)
        /\ UNCHANGED now

\* Mutant of consume: every refused request arms the timer anew.
consume_rearm(tokens, token_type) ==
    LET token_bucket == Bucket(token_type)
        r == IF IsSome(token_bucket)
             THEN reduce(Unwrap(token_bucket), tokens, now)
             ELSE [ bucket |-> None, ok |-> TRUE ]
        success == r.ok
    IN  /\ IF IsSome(token_bucket)
           THEN IF token_type = "Bytes"
                THEN bandwidth' = Some(r.bucket) /\ ops' = ops
                ELSE ops' = Some(r.bucket) /\ bandwidth' = bandwidth
           ELSE UNCHANGED <<bandwidth, ops>>
        /\ IF ~success
           THEN /\ timer_deadline' =
                       Some(now + REFILL_TIMER_INTERVAL_MS * NANOSEC_IN_ONE_MILLISEC)
                /\ timer_expirations' = 0
                /\ timer_active' = TRUE
           ELSE UNCHANGED <<timer_deadline, timer_expirations, timer_active>>
        /\ last' = Last("consume", token_type, tokens, success, NoErr, FALSE, FALSE)
        /\ UNCHANGED now

\* RateLimiter::consume. A refused request with no timer active arms the one-shot
\* timer (timerfd_settime: new deadline, expiration count reset).
consume(tokens, token_type) ==
    LET token_bucket == Bucket(token_type)
        r == IF IsSome(token_bucket)
             THEN reduce(Unwrap(token_bucket), tokens, now)
             ELSE [ bucket |-> None, ok |-> TRUE ]
        success == r.ok
    IN  /\ IF IsSome(token_bucket)
           THEN IF token_type = "Bytes"
                THEN bandwidth' = Some(r.bucket) /\ ops' = ops
                ELSE ops' = Some(r.bucket) /\ bandwidth' = bandwidth
           ELSE UNCHANGED <<bandwidth, ops>>
        /\ IF ~success /\ ~timer_active
           THEN /\ timer_deadline' =
                       Some(now + REFILL_TIMER_INTERVAL_MS * NANOSEC_IN_ONE_MILLISEC)
                /\ timer_expirations' = 0
                /\ timer_active' = TRUE
           ELSE UNCHANGED <<timer_deadline, timer_expirations, timer_active>>
        /\ last' = Last("consume", token_type, tokens, success, NoErr, FALSE, FALSE)
        /\ UNCHANGED now

\* Mutant of manual_replenish: the tokens are credited to both buckets.
manual_replenish_both(tokens, token_type) ==
    LET token_bucket == Bucket(token_type)
    IN  /\ IF IsSome(token_bucket)
           THEN /\ one_time_burst(Unwrap(token_bucket)) > 0
                       => one_time_burst(Unwrap(token_bucket)) + tokens <= MaxBurst
                /\ bandwidth' = IF IsSome(bandwidth)
                                THEN Some(replenish(Unwrap(bandwidth), tokens))
                                ELSE bandwidth
                /\ ops' = IF IsSome(ops)
                          THEN Some(replenish(Unwrap(ops), tokens))
                          ELSE ops
           ELSE UNCHANGED <<bandwidth, ops>>
        /\ last' = Last("manual_replenish", token_type, tokens, TRUE, NoErr, FALSE, FALSE)
        /\ UNCHANGED <<timer_active, timer_deadline, timer_expirations, now>>

\* RateLimiter::manual_replenish
manual_replenish(tokens, token_type) ==
    LET token_bucket == Bucket(token_type)
    IN  /\ IF IsSome(token_bucket)
           THEN \* the model keeps the credited burst within MaxBurst
                /\ one_time_burst(Unwrap(token_bucket)) > 0
                       => one_time_burst(Unwrap(token_bucket)) + tokens <= MaxBurst
                /\ IF token_type = "Bytes"
                   THEN /\ bandwidth' = Some(replenish(Unwrap(token_bucket), tokens))
                        /\ ops' = ops
                   ELSE /\ ops' = Some(replenish(Unwrap(token_bucket), tokens))
                        /\ bandwidth' = bandwidth
           ELSE UNCHANGED <<bandwidth, ops>>
        /\ last' = Last("manual_replenish", token_type, tokens, TRUE, NoErr, FALSE, FALSE)
        /\ UNCHANGED <<timer_active, timer_deadline, timer_expirations, now>>

\* Mutant of event_handler: timer_active is cleared whatever the read returns.
event_handler_clear_always ==
    /\ timer_expirations' = 0
    /\ timer_active' = FALSE
    /\ IF timer_expirations = 0
       THEN last' = Last("event_handler", "Bytes", 0, FALSE,
                         <<"SpuriousRateLimiterEvent", SPURIOUS_MSG>>, FALSE, FALSE)
       ELSE last' = Last("event_handler", "Bytes", 0, TRUE, NoErr, FALSE, FALSE)
    /\ UNCHANGED <<bandwidth, ops, timer_deadline, now>>

\* Mutant of event_handler: a read of 0 expirations is not told apart from an expiry.
event_handler_spurious_ok ==
    /\ timer_expirations' = 0
    /\ timer_active' = FALSE
    /\ last' = Last("event_handler", "Bytes", 0, TRUE, NoErr, FALSE, FALSE)
    /\ UNCHANGED <<bandwidth, ops, timer_deadline, now>>

\* Mutant of event_handler: the read leaves the expirations on the timer fd.
event_handler_unread ==
    /\ UNCHANGED timer_expirations
    /\ IF timer_expirations = 0
       THEN /\ last' = Last("event_handler", "Bytes", 0, FALSE,
                            <<"SpuriousRateLimiterEvent", SPURIOUS_MSG>>, FALSE, FALSE)
            /\ UNCHANGED timer_active
       ELSE /\ timer_active' = FALSE
            /\ last' = Last("event_handler", "Bytes", 0, TRUE, NoErr, FALSE, FALSE)
    /\ UNCHANGED <<bandwidth, ops, timer_deadline, now>>

\* RateLimiter::event_handler: timer_fd.read() returns the expirations and clears them.
event_handler ==
    /\ timer_expirations' = 0
    /\ IF timer_expirations = 0
       THEN /\ last' = Last("event_handler", "Bytes", 0, FALSE,
                            <<"SpuriousRateLimiterEvent", SPURIOUS_MSG>>, FALSE, FALSE)
            /\ UNCHANGED timer_active
       ELSE /\ timer_active' = FALSE
            /\ last' = Last("event_handler", "Bytes", 0, TRUE, NoErr, FALSE, FALSE)
    /\ UNCHANGED <<bandwidth, ops, timer_deadline, now>>

\* Option<T> over a set.
Option(S) == {None} \cup {Some(x) : x \in S}

\* Mutant of update_buckets: a kind whose argument is None is rebuilt from its
\* own configuration.
update_buckets_rebuild(bytes, opsArg) ==
    /\ bandwidth' = IF IsSome(bytes)
                    THEN make_bucket(Unwrap(bytes).size, Unwrap(bytes).one_time_burst,
                                     Unwrap(bytes).refill_time, now)
                    ELSE IF IsSome(bandwidth)
                         THEN make_bucket(Unwrap(bandwidth).size,
                                          Unwrap(bandwidth).one_time_burst,
                                          Unwrap(bandwidth).refill_time, now)
                         ELSE bandwidth
    /\ ops' = IF IsSome(opsArg)
              THEN make_bucket(Unwrap(opsArg).size, Unwrap(opsArg).one_time_burst,
                               Unwrap(opsArg).refill_time, now)
              ELSE IF IsSome(ops)
                   THEN make_bucket(Unwrap(ops).size, Unwrap(ops).one_time_burst,
                                    Unwrap(ops).refill_time, now)
                   ELSE ops
    /\ last' = Last("update_buckets", "Bytes", 0, TRUE, NoErr, IsSome(bytes), IsSome(opsArg))
    /\ UNCHANGED <<timer_active, timer_deadline, timer_expirations, now>>

\* Mutant of update_buckets: a supplied bucket is installed with the budget it has.
update_buckets_assign(bytes, opsArg) ==
    /\ bandwidth' = IF IsSome(bytes)
                    THEN IF Unwrap(bytes).size # 0 /\ Unwrap(bytes).refill_time # 0
                         THEN Some([TokenBucketNew(Unwrap(bytes).size,
                                                   Unwrap(bytes).one_time_burst,
                                                   Unwrap(bytes).refill_time, now)
                                       EXCEPT !.budget = Unwrap(bytes).budget])
                         ELSE None
                    ELSE bandwidth
    /\ ops' = IF IsSome(opsArg)
              THEN IF Unwrap(opsArg).size # 0 /\ Unwrap(opsArg).refill_time # 0
                   THEN Some([TokenBucketNew(Unwrap(opsArg).size,
                                             Unwrap(opsArg).one_time_burst,
                                             Unwrap(opsArg).refill_time, now)
                                 EXCEPT !.budget = Unwrap(opsArg).budget])
                   ELSE None
              ELSE ops
    /\ last' = Last("update_buckets", "Bytes", 0, TRUE, NoErr, IsSome(bytes), IsSome(opsArg))
    /\ UNCHANGED <<timer_active, timer_deadline, timer_expirations, now>>

\* Mutant of update_buckets: new buckets unblock the limiter.
update_buckets_unblock(bytes, opsArg) ==
    /\ bandwidth' = IF IsSome(bytes)
                    THEN make_bucket(Unwrap(bytes).size, Unwrap(bytes).one_time_burst,
                                     Unwrap(bytes).refill_time, now)
                    ELSE bandwidth
    /\ ops' = IF IsSome(opsArg)
              THEN make_bucket(Unwrap(opsArg).size, Unwrap(opsArg).one_time_burst,
                               Unwrap(opsArg).refill_time, now)
              ELSE ops
    /\ timer_active' = FALSE
    /\ last' = Last("update_buckets", "Bytes", 0, TRUE, NoErr, IsSome(bytes), IsSome(opsArg))
    /\ UNCHANGED <<timer_deadline, timer_expirations, now>>

\* RateLimiter::update_buckets
update_buckets(bytes, opsArg) ==
    /\ bandwidth' = IF IsSome(bytes)
                    THEN make_bucket(Unwrap(bytes).size, Unwrap(bytes).one_time_burst,
                                     Unwrap(bytes).refill_time, now)
                    ELSE bandwidth
    /\ ops' = IF IsSome(opsArg)
              THEN make_bucket(Unwrap(opsArg).size, Unwrap(opsArg).one_time_burst,
                               Unwrap(opsArg).refill_time, now)
              ELSE ops
    /\ last' = Last("update_buckets", "Bytes", 0, TRUE, NoErr, IsSome(bytes), IsSome(opsArg))
    /\ UNCHANGED <<timer_active, timer_deadline, timer_expirations, now>>

\* Passage of time: the clock advances and an armed one-shot timer whose
\* deadline is reached expires (one expiration, timer disarmed).
Tick ==
    /\ now + TickNs <= MaxTicks * TickNs
    /\ now' = now + TickNs
    /\ IF IsSome(timer_deadline) /\ Unwrap(timer_deadline) <= now + TickNs
       THEN timer_deadline' = None /\ timer_expirations' = timer_expirations + 1
       ELSE UNCHANGED <<timer_deadline, timer_expirations>>
    /\ last' = Last("tick", "Bytes", 0, TRUE, NoErr, FALSE, FALSE)
    /\ UNCHANGED <<bandwidth, ops, timer_active>>

\* The operations of one rate limiter; the vCPU threads are not part of it.
Next ==
    \/ /\ \E tokens \in Tokens, token_type \in TokenTypes : consume(tokens, token_type)
       /\ UNCHANGED <<histVars, vcpuVars, vmVars>>
    \/ /\ \E tokens \in Tokens, token_type \in TokenTypes :
            manual_replenish(tokens, token_type)
       /\ UNCHANGED <<histVars, vcpuVars, vmVars>>
    \/ event_handler /\ UNCHANGED <<histVars, vcpuVars, vmVars>>
    \/ /\ \E bytes \in Option(BytesConfigs), opsArg \in Option(OpsConfigs) :
            update_buckets(bytes, opsArg)
       /\ UNCHANGED <<histVars, vcpuVars, vmVars>>
    \/ Tick /\ UNCHANGED <<histVars, vcpuVars, vmVars>>

Spec == Init /\ [][Next]_vars

-----------------------------------------------------------------------------
(* The buckets a limiter was built with, under consume, manual_replenish and   *)
(* the passage of time, with their history: what a bucket was before the last  *)
(* granted consume, and since when it has been refilling from an empty budget. *)

\* The time since which the bucket of kind k refills from budget 0, after the step.
DrainedAt(k) ==
    IF last'.token_type # k \/ ~IsSome(Bucket(k)')
    THEN drained_at[k]
    ELSE IF last'.op = "manual_replenish"
    THEN None
    ELSE IF last'.op = "consume" /\ last'.ret /\ last'.tokens > 0
    THEN IF Unwrap(Bucket(k)').budget = 0 THEN Some(now) ELSE None
    ELSE drained_at[k]

\* The bucket a granted consume has drawn from, as it was before the call; it is
\* kept through a manual_replenish of the same amount and kind that directly
\* follows the consume.
Reverted ==
    IF last'.op = "consume" /\ last'.ret /\ Present(last'.token_type)
    THEN Some(TB(last'.token_type))
    ELSE IF /\ last'.op = "manual_replenish"
            /\ last.op = "consume" /\ last.ret
            /\ last'.token_type = last.token_type /\ last'.tokens = last.tokens
         THEN prev
         ELSE None

Record ==
    /\ prev' = Reverted
    /\ drained_at' = [k \in TokenTypes |-> DrainedAt(k)]
    /\ UNCHANGED <<supplied, pending>>

NextHistory ==
    \/ /\ \E tokens \in Tokens, token_type \in TokenTypes : consume(tokens, token_type)
       /\ Record
       /\ UNCHANGED <<vcpuVars, vmVars>>
    \/ /\ \E tokens \in Tokens, token_type \in TokenTypes :
            manual_replenish(tokens, token_type)
       /\ Record
       /\ UNCHANGED <<vcpuVars, vmVars>>
    \/ Tick /\ Record /\ UNCHANGED <<vcpuVars, vmVars>>

SpecHistory == Init /\ [][NextHistory]_vars

\* The same operations on a limiter built with a one-time burst on its bandwidth
\* bucket, of a size below or above the requests, and without an ops bucket.
BurstConfigs == Config({1, MaxSize}, {Some(MaxBurst)}, {REFILL_TIMER_INTERVAL_MS})

InitBurst ==
    \E b \in BurstConfigs :
        /\ now = 0
        /\ bandwidth = make_bucket(b.size, b.one_time_burst, b.refill_time, 0)
        /\ ops = make_bucket(0, None, 0, 0)
        /\ timer_active = FALSE
        /\ timer_deadline = None
        /\ timer_expirations = 0
        /\ last = Last("new", "Bytes", 0, TRUE, NoErr, FALSE, FALSE)
        /\ NoHistory
        /\ InitVcpu
        /\ IdleVm

SpecBurst == InitBurst /\ [][NextHistory]_vars

-----------------------------------------------------------------------------
(* update_buckets given live TokenBucket objects: buckets of the bounded      *)
(* configurations whose budget is full (TokenBucket::new) or 0 (deserialized,  *)
(* or drawn from).                                                             *)

SuppliedBuckets(C) ==
    UNION { { [ size |-> c.size, one_time_burst |-> c.one_time_burst,
                refill_time |-> c.refill_time, budget |-> budget ] :
                  budget \in {0, c.size} } : c \in C }

NextUpdate ==
    \/ /\ \E tokens \in Tokens, token_type \in TokenTypes : consume(tokens, token_type)
       /\ supplied' = None
       /\ UNCHANGED <<prev, drained_at, pending, vcpuVars, vmVars>>
    \/ /\ \E bytes \in Option(SuppliedBuckets(BytesConfigs)),
             opsArg \in Option(SuppliedBuckets(OpsConfigs)) :
            /\ update_buckets(bytes, opsArg)
            /\ supplied' = Some([Bytes |-> bytes, Ops |-> opsArg])
       /\ UNCHANGED <<prev, drained_at, pending, vcpuVars, vmVars>>
    \/ /\ event_handler
       /\ supplied' = None
       /\ UNCHANGED <<prev, drained_at, pending, vcpuVars, vmVars>>
    \/ Tick /\ supplied' = None /\ UNCHANGED <<prev, drained_at, pending, vcpuVars, vmVars>>

SpecUpdate == Init /\ [][NextUpdate]_vars

-----------------------------------------------------------------------------
(* A user of the limiter that follows the blocking protocol: a refused consume *)
(* is retried each time the timer event arrives and event_handler returns Ok.  *)
(* Time is unbounded here. The code only uses differences of clock readings    *)
(* (now - last_update, and the timer's relative expiry), so the clock is kept  *)
(* at 0 and the passage of d ns moves last_update and the timer's deadline     *)
(* back by d. A bucket older than its refill time refills to size whatever its *)
(* age (the refill is clamped), so its age is kept at the refill time at most. *)

\* A refill time for which one timer interval yields less than one token for
\* every size in 1..MaxRetrySize + 1.
SLOW_REFILL_TIME_MS == 5 * REFILL_TIMER_INTERVAL_MS

RetryConfigs ==
    Config(1..MaxRetrySize, {None}, {REFILL_TIMER_INTERVAL_MS, SLOW_REFILL_TIME_MS})

RetryTokens == 1..(MaxRetrySize + 1)

InitRetry ==
    \E b \in RetryConfigs :
        /\ now = 0
        /\ bandwidth = make_bucket(b.size, b.one_time_burst, b.refill_time, 0)
        /\ ops = make_bucket(0, None, 0, 0)
        /\ timer_active = FALSE
        /\ timer_deadline = None
        /\ timer_expirations = 0
        /\ last = Last("new", "Bytes", 0, TRUE, NoErr, FALSE, FALSE)
        /\ NoHistory
        /\ InitVcpu
        /\ IdleVm

\* The bucket o after d ns have passed, with the clock kept where it is.
Aged(o, d) ==
    IF IsSome(o)
    THEN Some([Unwrap(o) EXCEPT !.last_update =
                  Max(@ - d, now - Unwrap(o).refill_time * NANOSEC_IN_ONE_MILLISEC)])
    ELSE None

\* Passage of half a timer interval; an armed one-shot timer whose deadline is
\* reached expires.
Elapse ==
    /\ bandwidth' = Aged(bandwidth, TickNs)
    /\ ops' = Aged(ops, TickNs)
    /\ IF IsSome(timer_deadline)
       THEN IF Unwrap(timer_deadline) - TickNs <= now
            THEN timer_deadline' = None /\ timer_expirations' = timer_expirations + 1
            ELSE /\ timer_deadline' = Some(Unwrap(timer_deadline) - TickNs)
                 /\ UNCHANGED timer_expirations
       ELSE UNCHANGED <<timer_deadline, timer_expirations>>
    /\ last' = Last("tick", "Bytes", 0, TRUE, NoErr, FALSE, FALSE)
    /\ UNCHANGED <<timer_active, now, pending>>

\* The request the user waits to retry.
Waiting(tokens, woken) == Some([tokens |-> tokens, woken |-> woken])

\* The user asks for n bytes while the limiter is not blocked; a refused
\* request waits for the timer event.
request(n) ==
    /\ ~IsSome(pending) /\ ~timer_active
    /\ consume(n, "Bytes")
    /\ pending' = IF last'.ret THEN None ELSE Waiting(n, FALSE)

\* The timer fd is readable: the user calls event_handler, and is woken to
\* retry when it returns Ok.
on_timer_event ==
    /\ timer_expirations > 0
    /\ event_handler
    /\ pending' = IF IsSome(pending) /\ last'.ret
                  THEN Waiting(Unwrap(pending).tokens, TRUE)
                  ELSE pending

\* event_handler has returned Ok: the user retries the waiting request.
retry ==
    /\ IsSome(pending) /\ Unwrap(pending).woken
    /\ consume(Unwrap(pending).tokens, "Bytes")
    /\ pending' = IF last'.ret THEN None ELSE Waiting(Unwrap(pending).tokens, FALSE)

NextRetry ==
    \/ /\ \E n \in RetryTokens : request(n)
       /\ UNCHANGED <<prev, drained_at, supplied, vcpuVars, vmVars>>
    \/ on_timer_event /\ UNCHANGED <<prev, drained_at, supplied, vcpuVars, vmVars>>
    \/ retry /\ UNCHANGED <<prev, drained_at, supplied, vcpuVars, vmVars>>
    \/ Elapse /\ UNCHANGED <<prev, drained_at, supplied, vcpuVars, vmVars>>

\* Time passes, and the user handles every timer event and retries after it.
SpecRetry ==
    /\ InitRetry /\ [][NextRetry]_vars
    /\ WF_vars(Elapse /\ UNCHANGED <<prev, drained_at, supplied, vcpuVars, vmVars>>)
    /\ WF_vars(on_timer_event /\ UNCHANGED <<prev, drained_at, supplied, vcpuVars, vmVars>>)
    /\ WF_vars(retry /\ UNCHANGED <<prev, drained_at, supplied, vcpuVars, vmVars>>)

-----------------------------------------------------------------------------
(* TokenBucket::new over a wide range of sizes and refill times: a default      *)
(* limiter whose bandwidth bucket is replaced through update_buckets.           *)

NewSizes == { sz * k : sz \in 1..MaxNewSize, k \in {1, 1000} }
NewRefillTimes == 1..MaxNewRefill
NewConfigs == Config(NewSizes, {None}, NewRefillTimes)

\* RateLimiter::default()
DefaultRateLimiter ==
    /\ now = 0
    /\ bandwidth = make_bucket(0, None, 0, 0)
    /\ ops = make_bucket(0, None, 0, 0)
    /\ timer_active = FALSE
    /\ timer_deadline = None
    /\ timer_expirations = 0
    /\ last = Last("new", "Bytes", 0, TRUE, NoErr, FALSE, FALSE)
    /\ NoHistory

InitNew == DefaultRateLimiter /\ InitVcpu /\ IdleVm

NextNew ==
    /\ \E c \in NewConfigs : update_buckets(Some(c), None)
    /\ UNCHANGED <<histVars, vcpuVars, vmVars>>

SpecNew == InitNew /\ [][NextNew]_vars

-----------------------------------------------------------------------------
(* The vCPU threads and the supervisor, under every interleaving. *)

NextVcpu ==
    \/ \E i \in Vcpus : run_seccomp(i) /\ UNCHANGED <<rlVars, vmVars>>
    \/ \E i \in Vcpus : run_barrier_wait(i) /\ UNCHANGED <<rlVars, vmVars>>
    \/ \E i \in Vcpus : run_barrier_pass(i) /\ UNCHANGED <<rlVars, vmVars>>
    \/ \E i \in Vcpus : run_loop(i) /\ UNCHANGED <<rlVars, vmVars>>
    \/ \E i \in Vcpus : run_signal(i) /\ UNCHANGED <<rlVars, vmVars>>
    \/ supervisor_wait /\ UNCHANGED <<rlVars, vmVars>>
    \/ supervisor_pass /\ UNCHANGED <<rlVars, vmVars>>

SpecVcpu == InitNew /\ [][NextVcpu]_vars

\* A thread that has left its loop is scheduled again: the write is not put off forever.
SpecVcpuFair == SpecVcpu /\ \A i \in Vcpus : WF_vars(run_signal(i) /\ UNCHANGED <<rlVars, vmVars>>)

-----------------------------------------------------------------------------
(* The set-up of a VM: memory, irq chip and vCPU handles, in any order and any    *)
(* number of times, on either architecture.                                       *)

NextVm ==
    \/ \E gm \in GuestMemories : memory_init(gm) /\ UNCHANGED <<rlVars, vcpuVars>>
    \/ setup_irqchip_x86_64 /\ UNCHANGED <<rlVars, vcpuVars>>
    \/ \E vcpu_count \in 1..NumVcpus :
            setup_irqchip_aarch64(vcpu_count) /\ UNCHANGED <<rlVars, vcpuVars>>
    \/ \E id \in Vcpus : GuestVcpuNew(id) /\ UNCHANGED <<rlVars, vcpuVars>>

\* A default rate limiter, the threads as spawned, and a new VM.
InitSetup == DefaultRateLimiter /\ InitVcpu /\ InitVm

SpecVm == InitSetup /\ [][NextVm]_vars

-----------------------------------------------------------------------------
(* The vCPU handles of a VM: created, and configured any number of times with    *)
(* any machine configuration, before or after the guest memory is set.           *)

\* The guest memory of the tests of configure: one region.
ONE_REGION == [id |-> 1, num_regions |-> 1]

\* The vCPU ids of the tests of configure: the boot vCPU and another one.
TestVcpuIds == {0, 1}

InitConfigure ==
    /\ DefaultRateLimiter
    /\ InitVcpu
    /\ \E a \in Archs, table \in HostCpuIds : NewVm(a, 1, table)

NextConfigure ==
    \/ memory_init(ONE_REGION) /\ UNCHANGED <<rlVars, vcpuVars>>
    \/ \E id \in TestVcpuIds : GuestVcpuNew(id) /\ UNCHANGED <<rlVars, vcpuVars>>
    \/ \E id \in TestVcpuIds, machine_config \in MachineConfigs, fail_at \in FailPoints :
            configure(id, machine_config, fail_at) /\ UNCHANGED <<rlVars, vcpuVars>>

SpecConfigure == InitConfigure /\ [][NextConfigure]_vars

-----------------------------------------------------------------------------
(* Properties. *)


\* The operations that act on an existing bucket or let time pass.
BucketOps == {"consume", "manual_replenish", "tick"}

\* C1: for every token bucket, in every reachable state, 0 <= budget <= size
\* and one_time_burst >= 0.
C1_BudgetWithinSize ==
    \A k \in TokenTypes :
        Present(k) =>
            /\ 0 <= TB(k).budget
            /\ TB(k).budget <= TB(k).size
            /\ one_time_burst(TB(k)) >= 0

\* C1 witness: a bucket last updated after time has passed has been
\* replenished up to its size.
C1_Witness ==
    /\ last.op = "manual_replenish" /\ last.token_type = "Bytes" /\ last.tokens > 0
    /\ Present("Bytes")
    /\ TB("Bytes").last_update > 0
    /\ TB("Bytes").budget = TB("Bytes").size

\* C2 as stated: no reduce, replenish or passage of time makes one_time_burst
\* larger than it was before.
C2_BurstNeverGrows ==
    [][ \A k \in TokenTypes :
            (last'.op \in BucketOps /\ Present(k))
                => one_time_burst(TB(k))' <= one_time_burst(TB(k)) ]_vars

\* C2 amended: reduce and the passage of time never make one_time_burst larger;
\* replenish(tokens) adds tokens to a burst that is still positive and leaves
\* an exhausted or absent burst as it is.
C2_BurstGrowsOnlyByReplenish ==
    [][ \A k \in TokenTypes :
            Present(k) =>
                /\ last'.op \in {"consume", "tick"}
                       => one_time_burst(TB(k))' <= one_time_burst(TB(k))
                /\ last'.op = "manual_replenish"
                       => one_time_burst(TB(k))' =
                              IF last'.token_type = k /\ one_time_burst(TB(k)) > 0
                              THEN one_time_burst(TB(k)) + last'.tokens
                              ELSE one_time_burst(TB(k)) ]_vars

\* C2 witness: a replenish has credited a burst that was still positive.
C2_Witness ==
    /\ last.op = "manual_replenish" /\ last.token_type = "Bytes" /\ last.tokens > 0
    /\ Present("Bytes")
    /\ one_time_burst(TB("Bytes")) > last.tokens

\* C3: once the one-time burst of a bucket is 0 it stays 0 under every later
\* reduce, replenish and passage of time.
C3_ExhaustedBurstStaysZero ==
    [][ \A k \in TokenTypes :
            (last'.op \in BucketOps /\ Present(k) /\ one_time_burst(TB(k)) = 0)
                => one_time_burst(TB(k))' = 0 ]_vars

\* C3 witness: a bucket whose burst is exhausted has been replenished and its
\* burst is still 0.
C3_Witness ==
    /\ last.op = "manual_replenish" /\ last.token_type = "Bytes" /\ last.tokens > 0
    /\ Present("Bytes")
    /\ TB("Bytes").one_time_burst = Some(0)

\* C4 as stated: timer_active is true iff the timer fd is armed.
C4_BlockedIffArmed == timer_active <=> IsSome(timer_deadline)

\* C4 amended: timer_active is true iff the timer fd is armed or has expired
\* without the expiration having been read by event_handler.
C4_BlockedIffArmedOrUnread ==
    timer_active <=> (IsSome(timer_deadline) \/ timer_expirations > 0)

\* C4 witness: the timer has expired, nothing has read it, the limiter is blocked.
C4_Witness == timer_active /\ timer_expirations > 0 /\ ~IsSome(timer_deadline)

\* C5: a bucket built with size 0 or refill time 0 is absent, and consume on an
\* absent kind returns true for every amount without touching the timer,
\* timer_active or the other bucket.
C5_AbsentKindAlwaysGranted ==
    [][ /\ \A c \in BytesConfigs \cup OpsConfigs :
               (c.size = 0 \/ c.refill_time = 0)
                   <=> make_bucket(c.size, c.one_time_burst, c.refill_time, now) = None
        /\ (last'.op = "consume" /\ ~Present(last'.token_type))
               => /\ last'.ret = TRUE
                  /\ UNCHANGED <<bandwidth, ops, timer_active,
                                 timer_deadline, timer_expirations>> ]_vars

\* C5 witness: a consume larger than any bucket on an absent kind, granted while
\* the limiter is blocked on the other kind.
C5_Witness ==
    /\ last.op = "consume" /\ last.token_type = "Ops" /\ last.tokens = MaxTokens
    /\ last.ret = TRUE
    /\ ~Present("Ops")
    /\ timer_active

\* C6: the limiter starts unblocked; it becomes blocked exactly when a consume
\* returns false; it stays blocked while the armed timer has not expired; it
\* becomes unblocked only when event_handler returns Ok after the expiry; a
\* granted consume, manual_replenish and the passage of time leave is_blocked().
C6_BlockedProtocol ==
    /\ ~timer_active
    /\ [][ /\ (~timer_active /\ timer_active')
                  => (last'.op = "consume" /\ last'.ret = FALSE)
           /\ (last'.op = "consume" /\ last'.ret = FALSE) => timer_active'
           /\ (timer_active /\ IsSome(timer_deadline)) => timer_active'
           /\ (timer_active /\ ~timer_active')
                  => /\ last'.op = "event_handler" /\ last'.ret = TRUE
                     /\ timer_expirations > 0
           /\ (last'.op = "event_handler" /\ last'.ret = TRUE) => ~timer_active'
           /\ (\/ last'.op \in {"manual_replenish", "tick"}
               \/ (last'.op = "consume" /\ last'.ret = TRUE))
                  => timer_active' = timer_active ]_vars

\* C6 witness: a limiter that was blocked is unblocked by event_handler.
C6_Witness ==
    /\ last.op = "event_handler" /\ last.ret = TRUE
    /\ ~timer_active
    /\ now >= REFILL_TIMER_INTERVAL_MS * NANOSEC_IN_ONE_MILLISEC


\* C7: with no time passed since the bucket's last update and a request of at
\* most size, reduce(t) returns true iff t <= one_time_burst + budget; on
\* success the burst is drawn first and one_time_burst + budget drops by t.
C7_BurstThenBudget ==
    [][ \A k \in TokenTypes :
            ( /\ last'.op = "consume" /\ last'.token_type = k
              /\ Present(k)
              /\ TB(k).last_update = now
              /\ last'.tokens <= TB(k).size )
            => /\ last'.ret = (last'.tokens <= one_time_burst(TB(k)) + TB(k).budget)
               /\ last'.ret =>
                    /\ one_time_burst(TB(k))' = Max(one_time_burst(TB(k)) - last'.tokens, 0)
                    /\ one_time_burst(TB(k))' + TB(k).budget'
                           = one_time_burst(TB(k)) + TB(k).budget - last'.tokens ]_vars

\* C7 witness: the burst is exhausted and the budget drawn, by a granted request.
C7_Witness ==
    /\ last.op = "consume" /\ last.token_type = "Bytes" /\ last.ret = TRUE
    /\ Present("Bytes")
    /\ last.tokens = TB("Bytes").size
    /\ TB("Bytes").one_time_burst = Some(0)
    /\ TB("Bytes").budget = MaxBurst
    /\ TB("Bytes").last_update = 0

\* C8: event_handler with no expiration on the timer fd (never armed, drained,
\* or armed and not yet expired) returns SpuriousRateLimiterEvent with its text
\* and leaves timer_active and both buckets unchanged.
C8_SpuriousEvent ==
    [][ (last'.op = "event_handler" /\ timer_expirations = 0)
            => /\ last'.ret = FALSE
               /\ last'.err = <<"SpuriousRateLimiterEvent",
                                "Rate limiter event handler called without a present timer">>
               /\ UNCHANGED <<timer_active, bandwidth, ops>> ]_vars

\* C8 witness: event_handler has failed while the timer is armed and not expired.
C8_Witness ==
    /\ last.op = "event_handler" /\ last.ret = FALSE
    /\ timer_active /\ IsSome(timer_deadline)

\* C9: update_buckets leaves unchanged every bucket whose argument is None.
C9_UpdateNoneKeepsBucket ==
    [][ last'.op = "update_buckets"
            => /\ ~last'.bytes => bandwidth' = bandwidth
               /\ ~last'.ops => ops' = ops ]_vars

\* C9 witness: update_buckets(None, None) on a limiter with two used buckets.
C9_Witness ==
    /\ last.op = "update_buckets" /\ ~last.bytes /\ ~last.ops
    /\ Present("Bytes") /\ Present("Ops")
    /\ TB("Bytes").budget < TB("Bytes").size
    /\ TB("Ops").budget < TB("Ops").size

\* C10: processed_capacity * refill_time_ms * 1_000_000 = size * processed_refill_time
\* for every bucket built by TokenBucket::new with size > 0 and refill time > 0.
C10_PreprocessExact ==
    \A k \in TokenTypes :
        Present(k) =>
            TB(k).processed_capacity * TB(k).refill_time * NANOSEC_IN_ONE_MILLISEC
                = TB(k).size * TB(k).processed_refill_time

\* C10 witness: a bucket for which both reductions are proper.
C10_Witness ==
    /\ Present("Bytes")
    /\ TB("Bytes").size = 6000 /\ TB("Bytes").refill_time = 4
    /\ TB("Bytes").processed_capacity = 3
    /\ TB("Bytes").processed_refill_time = 2000

-----------------------------------------------------------------------------
(* Properties of the vCPU threads. *)

\* The step just taken is a call of fd.run() by vCPU i that returned `kinds`.
RanWith(i, kinds) == runs'[i] = runs[i] + 1 /\ vlast'.exit.kind \in kinds

\* C11: when fd.run() fails with EAGAIN or EINTR the vCPU stays Running (its
\* loop goes on to the next call of run), its exit eventfd is not written and
\* the failure counter is not incremented, however many such errors came before.
C11_RetryKeepsRunning ==
    [][\A i \in Vcpus :
        RanWith(i, {"Err"}) /\ vlast'.exit.errno \in {"EAGAIN", "EINTR"}
            => /\ pc'[i] = "running"
               /\ vlast'.emulated.ok
               /\ exit_evt' = exit_evt
               /\ metrics' = metrics]_vars

\* vCPU 0 is still Running after two calls of run, the first of which touched no
\* counter either and the second of which was interrupted; nothing was signalled.
C11_Witness ==
    /\ runs[0] = 2 /\ pc[0] = "running"
    /\ vlast.vcpu = 0 /\ vlast.step = "run"
    /\ vlast.exit.kind = "Err" /\ vlast.exit.errno = "EINTR"
    /\ \A c \in DOMAIN metrics : metrics[c] = 0
    /\ exit_evt[0] = 0

\* What C12 says of one step, for vCPU i.
C12_Step(i) ==
    \* the loop ends exactly on a fatal exit or error of fd.run()
    /\ runs'[i] = runs[i] + 1 /\ IsFatal(vlast'.exit)
            => pc'[i] = "signal"
    /\ pc'[i] = "signal" /\ pc[i] # "signal"
            => pc[i] = "running" /\ runs'[i] = runs[i] + 1 /\ IsFatal(vlast'.exit)
    \* the write comes after the loop, is the thread's last step and adds 1, once
    /\ exit_evt'[i] # exit_evt[i]
            => pc[i] = "signal" /\ exit_evt[i] = 0 /\ exit_evt'[i] = 1
    /\ pc[i] = "signal" /\ pc'[i] # "signal"
            => pc'[i] = "exited" /\ vlast'.step = "write" /\ vlast'.vcpu = i
    \* Exited is terminal: no further run, no further write
    /\ pc[i] = "exited"
            => pc'[i] = "exited" /\ runs'[i] = runs[i] /\ exit_evt'[i] = exit_evt[i]

\* C12: a vCPU thread writes 1 to its exit eventfd once, only after its loop
\* has ended on a fatal exit or on an error of run other than EAGAIN and EINTR,
\* and never calls run afterwards (Exited is terminal); and every fatal exit
\* is eventually followed by that write.
C12_ExitSignalledOnce ==
    /\ [][\A i \in Vcpus : C12_Step(i)]_vars
    /\ \A i \in Vcpus : (pc[i] = "signal") ~> (pc[i] = "exited")

\* vCPU 0 has exited after a Hlt, its eventfd holds the 1 it wrote.
C12_Witness ==
    /\ pc[0] = "exited" /\ exit_evt[0] = 1 /\ runs[0] = 1
    /\ vlast.vcpu = 0 /\ vlast.step = "write" /\ vlast.emulated.ok
    /\ metrics.failures = 0

\* The step just taken is the fatal turn of vCPU i's loop, or its write after it.
EndsLoop(i) == runs'[i] = runs[i] + 1 /\ IsFatal(vlast'.exit)
Signals(i) == pc[i] = "signal" /\ pc'[i] = "exited"

\* C13: with several vCPU threads, a fatal exit or run error of one vCPU ends
\* the loop of that vCPU only and signals the exit eventfd of that vCPU only:
\* every peer stays where it is (a Running peer stays Running, with its calls of
\* run and its eventfd untouched).
C13_FatalExitIsLocal ==
    [][\A i \in Vcpus :
        EndsLoop(i) \/ Signals(i)
            => \A j \in Vcpus \ {i} :
                /\ pc'[j] = pc[j]
                /\ runs'[j] = runs[j]
                /\ exit_evt'[j] = exit_evt[j]]_vars

\* vCPU 0 has exited and signalled; vCPU 1, Running, has just dispatched an
\* I/O exit and goes on, its eventfd unsignalled.
C13_Witness ==
    /\ pc[0] = "exited" /\ exit_evt[0] = 1
    /\ pc[1] = "running" /\ exit_evt[1] = 0
    /\ vlast.vcpu = 1 /\ vlast.step = "run" /\ vlast.exit.kind = "IoIn"

\* The positions of run at which the thread has called thread_barrier.wait().
AtOrPastBarrier == {"waiting", "running", "signal", "exited"}

\* C14: no vCPU thread makes its first call of run before every participant of
\* the barrier (all the vCPU threads and the supervisor) has reached it, under
\* every interleaving; and a vCPU thread reaches the barrier only with its
\* seccomp filter installed.
C14_BarrierBeforeRun ==
    \A i \in Vcpus :
        /\ runs[i] > 0 \/ pc[i] \in {"running", "signal", "exited"}
            => /\ \A j \in Vcpus : pc[j] \in AtOrPastBarrier
               /\ supervisor \in {"waiting", "released"}
        /\ pc[i] \in {"barrier"} \cup AtOrPastBarrier => seccomp[i]

\* vCPU 0 has made its first call of run while vCPU 1 and the supervisor, both
\* arrived, have not yet returned from wait().
C14_Witness ==
    /\ runs[0] = 1 /\ vlast.vcpu = 0 /\ vlast.step = "run"
    /\ pc[1] = "waiting" /\ supervisor = "waiting"
    /\ \A i \in Vcpus : seccomp[i]

\* C15 as stated: every fatal exit (Hlt, Shutdown, FailEntry, InternalError, any
\* unhandled exit, any run error other than EAGAIN and EINTR) increments the
\* vCPU failure counter.
C15_FatalBumpsFailures ==
    [][\A i \in Vcpus :
        EndsLoop(i) => metrics'.failures = metrics.failures + 1]_vars

\* C15, amended: FailEntry, InternalError, any unhandled exit and any run error
\* other than EAGAIN and EINTR increment the vCPU failure counter by one; Hlt and
\* Shutdown end the loop and leave the counter as it was.
C15_FatalBumpsFailuresButHltShutdown ==
    [][\A i \in Vcpus :
        EndsLoop(i) =>
            IF vlast'.exit.kind \in {"Hlt", "Shutdown"}
            THEN metrics' = metrics
            ELSE metrics' = [metrics EXCEPT !.failures = @ + 1]]_vars

\* Both loops have ended, the second on FailEntry, and one failure is counted:
\* the first ended on Hlt or Shutdown.
C15_Witness ==
    /\ pc[0] = "signal" /\ runs[0] = 1
    /\ pc[1] = "signal" /\ runs[1] = 1
    /\ vlast.vcpu = 1 /\ vlast.exit.kind = "FailEntry"
    /\ metrics.failures = 1

-----------------------------------------------------------------------------
(* Properties of the VM. *)

\* C16: memory_init with more regions than the driver's maximum returns
\* NotEnoughMemorySlots, installs no slot, does not set the TSS address and
\* leaves the VM's guest memory as it was (unset, or the one set before).
C16_TooManyRegionsRefused ==
    [][vm_last'.op = "memory_init" /\ vm_last'.arg.num_regions > max_memslots
        => /\ vm_last'.ret = "NotEnoughMemorySlots"
           /\ kvm'.slots = kvm.slots
           /\ kvm'.tss = kvm.tss
           /\ guest_mem' = guest_mem]_vars

\* A VM whose memory was initialised with one region has just refused a guest
\* memory with more regions than the driver allows, and still has the first.
C16_Witness ==
    /\ vm_last.op = "memory_init" /\ vm_last.ret = "NotEnoughMemorySlots"
    /\ vm_last.arg.num_regions = max_memslots + 1
    /\ IsSome(guest_mem) /\ Unwrap(guest_mem).num_regions = 1
    /\ DOMAIN kvm.slots = {0}

\* C17: after any sequence of memory_init calls, successful or failed, the
\* installed slots are no more than the driver's maximum and are numbered
\* densely from zero, slot i holding a region of index i.
C17_SlotsDenseAndBounded ==
    /\ Cardinality(DOMAIN kvm.slots) <= max_memslots
    /\ DOMAIN kvm.slots = 0..(Cardinality(DOMAIN kvm.slots) - 1)
    /\ \A slot \in DOMAIN kvm.slots : kvm.slots[slot].index = slot

\* The driver's maximum of two slots is installed, the two from different
\* calls, and the last call was refused for its too many regions.
C17_Witness ==
    /\ max_memslots = 2 /\ DOMAIN kvm.slots = {0, 1}
    /\ kvm.slots[0].mem # kvm.slots[1].mem
    /\ vm_last.op = "memory_init" /\ vm_last.ret = "NotEnoughMemorySlots"

\* The VM has an in-kernel irq chip: the x86_64 chip or the aarch64 VGIC.
HasIrqChip == kvm.irqchip \/ IsSome(kvm.gic)

\* C18: a VM has at most one in-kernel irq chip: a successful setup_irqchip
\* creates it, it stays, and every later setup_irqchip on the same VM fails
\* with already-exists, on x86_64 and on aarch64.
C18_OneIrqChip ==
    [][/\ vm_last'.op = "setup_irqchip" /\ vm_last'.ret = "Ok"
            => ~HasIrqChip /\ HasIrqChip'
       /\ HasIrqChip => HasIrqChip'
       /\ vm_last'.op = "setup_irqchip" /\ HasIrqChip
            => /\ vm_last'.ret \in {"VmSetup", "SetupGIC"}
               /\ vm_last'.errno = "EEXIST"
               /\ kvm' = kvm]_vars

\* x86_64, no vCPU: the first setup_irqchip went through to its third irqfd and
\* the call just made was refused with EEXIST.
C18_Witness ==
    /\ arch = "x86_64" /\ kvm.vcpus = {}
    /\ kvm.irqchip /\ kvm.irqfds = {4, 3, 1}
    /\ vm_last.op = "setup_irqchip" /\ vm_last.ret = "VmSetup" /\ vm_last.errno = "EEXIST"

\* C19: on x86_64 a setup_irqchip made after a vCPU was created fails, and
\* registers no irqfd.
C19_NoIrqChipAfterVcpuX86 ==
    [][arch = "x86_64" /\ vm_last'.op = "setup_irqchip" /\ kvm.vcpus # {}
        => /\ vm_last'.ret = "VmSetup"
           /\ kvm'.irqfds = kvm.irqfds
           /\ kvm'.irqchip = kvm.irqchip]_vars

\* x86_64: a vCPU exists, setup_irqchip has just failed, and the VM has neither
\* a chip nor an irqfd.
C19_Witness ==
    /\ arch = "x86_64" /\ kvm.vcpus # {}
    /\ vm_last.op = "setup_irqchip" /\ vm_last.ret = "VmSetup" /\ vm_last.errno = "EINVAL"
    /\ ~kvm.irqchip /\ kvm.irqfds = {}

\* C20: on aarch64 the first setup_irqchip made after a vCPU was created
\* succeeds and records the handle of the GIC device; a second one fails, and
\* the VM still holds the first handle.
C20_GicHandleKept ==
    [][arch = "aarch64" /\ vm_last'.op = "setup_irqchip" /\ kvm.vcpus # {}
        => IF irqchip_handle = None /\ kvm.gic = None
           THEN /\ vm_last'.ret = "Ok"
                /\ IsSome(irqchip_handle') /\ irqchip_handle' = kvm'.gic
           ELSE /\ vm_last'.ret = "SetupGIC"
                /\ IsSome(irqchip_handle) /\ irqchip_handle' = irqchip_handle]_vars

\* aarch64: with a vCPU created, the second setup_irqchip has just failed and
\* the VM holds the handle of the GIC device.
C20_Witness ==
    /\ arch = "aarch64" /\ kvm.vcpus # {}
    /\ vm_last.op = "setup_irqchip" /\ vm_last.ret = "SetupGIC" /\ vm_last.errno = "EEXIST"
    /\ irqchip_handle = Some(GIC_FD) /\ kvm.gic = irqchip_handle

-----------------------------------------------------------------------------
(* Properties of the vCPU handles and their configuration. *)

\* C21: the CPUID table cached by a VM equals the table the driver reported
\* when the VM was created, and stays equal to it through any sequence of vCPU
\* creations and configure calls: a new vCPU gets a copy of it, and configure
\* rewrites only the copy of the vCPU it is called on, never the VM's table or
\* the copy of another vCPU.
C21_VmCpuidIsDriverCpuid ==
    /\ [](arch = "x86_64" => supported_cpuid = Some(hyp_cpuid))
    /\ [][/\ vm_last'.op = "create_vcpu" /\ vm_last'.ret = "Ok" /\ arch = "x86_64"
                => Unwrap(guest_vcpus'[vm_last'.arg]).cpuid = Some(hyp_cpuid)
          /\ vm_last'.op = "configure"
                => /\ supported_cpuid' = supported_cpuid
                   /\ \A j \in Vcpus \ {vm_last'.arg} : guest_vcpus'[j] = guest_vcpus[j]]_vars

\* x86_64 on an "amd" host: vCPU 0 has been configured with the T2 template and
\* holds a rewritten table, while vCPU 1 and the VM hold the driver's table.
C21_Witness ==
    /\ arch = "x86_64" /\ hyp_cpuid = CpuId("amd")
    /\ vm_last.op = "configure" /\ vm_last.arg = 0 /\ vm_last.ret = "Ok"
    /\ Len(Unwrap(Unwrap(guest_vcpus[0]).cpuid).rewrites) = 2
    /\ Unwrap(Unwrap(guest_vcpus[0]).cpuid).rewrites[2] = <<"T2">>
    /\ IsSome(guest_vcpus[1]) /\ Unwrap(guest_vcpus[1]).cpuid = Some(hyp_cpuid)
    /\ supported_cpuid = Some(hyp_cpuid)

-----------------------------------------------------------------------------
(* Properties of consume and manual_replenish taken together, and of the     *)
(* refill over time.                                                          *)

\* The budget of bucket b after the refill step of a reduce at time t.
Refilled(b, t) ==
    Min(b.size, b.budget + (((t - b.last_update) * b.processed_capacity)
                                \div b.processed_refill_time))

\* C22 as stated: a granted consume(n, kind) directly followed by
\* manual_replenish(n, kind), with no time passing in between, restores the
\* bucket's budget and one-time burst to their values before the consume.
C22_ReplenishRevertsConsume ==
    (last.op = "manual_replenish" /\ IsSome(prev))
        => /\ TB(last.token_type).budget = Unwrap(prev).budget
           /\ TB(last.token_type).one_time_burst = Unwrap(prev).one_time_burst

\* C22 amended: a granted consume(n, kind) directly followed by
\* manual_replenish(n, kind) restores budget and burst exactly when the burst
\* before the consume was larger than n. With no burst left before the consume
\* the burst is unchanged and the budget ends at the time-refilled budget
\* min(size, budget + refill). When the consume exhausted a positive burst
\* (0 < burst <= n) the burst stays 0 and the burst's tokens are credited to the
\* budget, clamped to size.
C22_ReplenishRevertsUnexhaustedBurst ==
    (last.op = "manual_replenish" /\ IsSome(prev))
        => LET b == Unwrap(prev)
               after == TB(last.token_type)
               n == last.tokens
               otb == one_time_burst(b)
           IN  IF otb > n
               THEN /\ after.one_time_burst = b.one_time_burst
                    /\ after.budget = b.budget
               ELSE IF otb = 0
               THEN /\ after.one_time_burst = b.one_time_burst
                    /\ after.budget = Refilled(b, now)
               ELSE /\ after.one_time_burst = Some(0)
                    /\ after.budget =
                           Min(b.size, otb + (IF n = otb THEN b.budget
                                                         ELSE Refilled(b, now)))

\* C22 witness: a consume has exhausted the burst and drawn from a budget that
\* was due a refill, and the same amount has been replenished right after it.
C22_Witness ==
    /\ last.op = "manual_replenish" /\ last.token_type = "Bytes"
    /\ IsSome(prev)
    /\ one_time_burst(Unwrap(prev)) = MaxBurst
    /\ last.tokens > MaxBurst
    /\ Unwrap(prev).last_update < now
    /\ TB("Bytes").one_time_burst = Some(0)

\* C23: a bucket takes complete_refill_time_ms to go from zero tokens to total
\* capacity: once a reduce at time t0 has taken the budget to 0, every reduce at
\* a time >= t0 + complete_refill_time_ms finds budget = size after its refill
\* step (it is granted and leaves size - tokens, or 0 for an oversized request),
\* however many refused reduces were made in between.
C23_FullAfterRefillTime ==
    [][ \A k \in TokenTypes :
            ( /\ last'.op = "consume" /\ last'.token_type = k
              /\ Present(k)
              /\ IsSome(drained_at[k])
              /\ now >= Unwrap(drained_at[k])
                            + TB(k).refill_time * NANOSEC_IN_ONE_MILLISEC )
            => /\ last'.ret
               /\ TB(k)'.budget = Max(TB(k).size - last'.tokens, 0) ]_vars

-----------------------------------------------------------------------------
(* Properties of single reduce and replenish calls. *)

\* C24: reduce(tokens) with no remaining burst and tokens > size sets budget to
\* 0 and returns true when the budget after the refill equals size, and returns
\* false when the budget after the refill is below size.
C24_OversizedWorkaround ==
    [][ \A k \in TokenTypes :
            ( /\ last'.op = "consume" /\ last'.token_type = k
              /\ Present(k)
              /\ one_time_burst(TB(k)) = 0
              /\ last'.tokens > TB(k).size )
            => IF Refilled(TB(k), now) = TB(k).size
               THEN last'.ret /\ TB(k)'.budget = 0
               ELSE ~last'.ret ]_vars

\* C24 witness: a bucket that was drawn from and has refilled to its size over
\* time has granted a request larger than its size.
C24_Witness ==
    /\ last.op = "consume" /\ last.token_type = "Bytes" /\ last.ret
    /\ Present("Bytes")
    /\ last.tokens > TB("Bytes").size
    /\ one_time_burst(TB("Bytes")) = 0
    /\ TB("Bytes").budget = 0
    /\ TB("Bytes").last_update >= REFILL_TIMER_INTERVAL_MS * NANOSEC_IN_ONE_MILLISEC

\* C25: a reduce that returns false consumes nothing: the one-time burst is what
\* it was before the call and the budget is the time-refilled budget
\* min(size, old budget + refill).
C25_RefusedConsumesNothing ==
    [][ \A k \in TokenTypes :
            ( /\ last'.op = "consume" /\ last'.token_type = k
              /\ Present(k)
              /\ ~last'.ret )
            => /\ TB(k)'.one_time_burst = TB(k).one_time_burst
               /\ TB(k)'.budget = Refilled(TB(k), now)
               /\ TB(k)'.budget >= TB(k).budget ]_vars

\* C25 witness: a request has been refused by a bucket with an exhausted burst
\* whose budget was refilled by the call, without filling up.
C25_Witness ==
    /\ last.op = "consume" /\ last.token_type = "Bytes" /\ ~last.ret
    /\ Present("Bytes")
    /\ TB("Bytes").one_time_burst = Some(0)
    /\ TB("Bytes").last_update > 0
    /\ TB("Bytes").budget > 0
    /\ TB("Bytes").budget < TB("Bytes").size

\* C26: replenish(tokens) on a bucket whose one-time burst is still positive adds
\* tokens to the burst and leaves the budget; on a bucket with no burst or a
\* burst of 0 it sets budget to min(budget + tokens, size) and leaves the burst;
\* manual_replenish on an absent bucket changes nothing.
C26_ReplenishBurstOrBudget ==
    [][ \A k \in TokenTypes :
            (last'.op = "manual_replenish" /\ last'.token_type = k)
            => IF Present(k)
               THEN /\ Present(k)'
                    /\ IF IsSome(TB(k).one_time_burst) /\ Unwrap(TB(k).one_time_burst) > 0
                       THEN /\ TB(k)'.one_time_burst =
                                   Some(Unwrap(TB(k).one_time_burst) + last'.tokens)
                            /\ TB(k)'.budget = TB(k).budget
                       ELSE /\ TB(k)'.budget = Min(TB(k).budget + last'.tokens, TB(k).size)
                            /\ TB(k)'.one_time_burst = TB(k).one_time_burst
               ELSE UNCHANGED <<bandwidth, ops, timer_active,
                                timer_deadline, timer_expirations>> ]_vars

\* C26 witness: a bucket without a burst has been credited more than it lacked
\* and is full.
C26_Witness ==
    /\ last.op = "manual_replenish" /\ last.token_type = "Bytes"
    /\ last.tokens = MaxTokens
    /\ Present("Bytes")
    /\ TB("Bytes").one_time_burst = None
    /\ TB("Bytes").budget = TB("Bytes").size
    /\ TB("Bytes").last_update > 0

-----------------------------------------------------------------------------
(* Properties of the refill timer. *)

\* C28: at most one refill timer is armed at a time: a consume refused while
\* the limiter is already blocked, on either token kind, leaves the timer as it
\* is; the first refusal arms it to expire 100 ms later and an armed expiry is
\* never moved.
C28_OneTimer ==
    [][ /\ (last'.op = "consume" /\ ~last'.ret /\ timer_active)
               => UNCHANGED <<timer_deadline, timer_expirations, timer_active>>
        /\ (last'.op = "consume" /\ ~last'.ret /\ ~timer_active)
               => timer_deadline' =
                      Some(now + REFILL_TIMER_INTERVAL_MS * NANOSEC_IN_ONE_MILLISEC)
        /\ (IsSome(timer_deadline) /\ IsSome(timer_deadline'))
               => timer_deadline' = timer_deadline ]_vars

\* C28 witness: the limiter blocked on bytes has refused an ops request some time
\* after the timer was armed, and the expiry is still the one set first.
C28_Witness ==
    /\ last.op = "consume" /\ last.token_type = "Ops" /\ ~last.ret
    /\ timer_active
    /\ IsSome(timer_deadline)
    /\ now > 0
    /\ Unwrap(timer_deadline) = REFILL_TIMER_INTERVAL_MS * NANOSEC_IN_ONE_MILLISEC

\* C29: each armed-then-expired timer cycle yields exactly one successful
\* event_handler: the first event_handler after the expiry returns Ok and clears
\* timer_active; a further event_handler returns the spurious-event error unless
\* a consume was refused in between (only a refused consume arms the timer, and
\* only an armed timer expires, once).
C29_OneOkPerCycle ==
    [][ /\ (last'.op = "event_handler" /\ timer_expirations > 0)
               => /\ last'.ret /\ ~timer_active'
                  /\ timer_expirations' = 0 /\ ~IsSome(timer_deadline')
        /\ (last'.op = "event_handler" /\ timer_expirations = 0)
               => /\ ~last'.ret
                  /\ last'.err = <<"SpuriousRateLimiterEvent", SPURIOUS_MSG>>
        /\ (last.op = "event_handler" /\ last.ret /\ last'.op = "event_handler")
               => ~last'.ret
        /\ timer_expirations' > timer_expirations
               => /\ last'.op = "tick" /\ IsSome(timer_deadline)
                  /\ ~IsSome(timer_deadline') /\ timer_expirations' = 1
        /\ (~IsSome(timer_deadline) /\ IsSome(timer_deadline'))
               => last'.op = "consume" /\ ~last'.ret ]_vars

\* C29 witness: the event_handler after an expiry has returned Ok, has taken the
\* expiration off the timer fd and has unblocked a limiter with two buckets.
C29_Witness ==
    /\ last.op = "event_handler" /\ last.ret
    /\ ~timer_active /\ ~IsSome(timer_deadline) /\ timer_expirations = 0
    /\ Present("Bytes") /\ Present("Ops")
    /\ TB("Bytes").budget < TB("Bytes").size

-----------------------------------------------------------------------------
(* Properties of update_buckets given live buckets. *)

\* C30: update_buckets with a supplied bucket b (size > 0, refill time > 0)
\* replaces that kind by a fresh bucket with b's size, b's current
\* one_time_burst and b's refill time, and with budget = size, whatever the
\* budgets of the old bucket and of b were.
C30_UpdateMakesFullBucket ==
    [][ \A k \in TokenTypes :
            ( /\ last'.op = "update_buckets"
              /\ IsSome(Unwrap(supplied')[k])
              /\ Unwrap(Unwrap(supplied')[k]).size > 0
              /\ Unwrap(Unwrap(supplied')[k]).refill_time > 0 )
            => LET b == Unwrap(Unwrap(supplied')[k])
               IN  /\ Present(k)'
                   /\ TB(k)'.size = b.size
                   /\ TB(k)'.one_time_burst = b.one_time_burst
                   /\ TB(k)'.refill_time = b.refill_time
                   /\ TB(k)'.budget = b.size
                   /\ TB(k)' = TokenBucketNew(b.size, b.one_time_burst,
                                              b.refill_time, now) ]_vars

\* C30 witness: update_buckets was given a bucket with a burst and budget 0, for
\* a kind whose bucket had been built before, and has installed a full bucket.
C30_Witness ==
    /\ last.op = "update_buckets"
    /\ IsSome(supplied) /\ IsSome(Unwrap(supplied)["Bytes"])
    /\ Unwrap(Unwrap(supplied)["Bytes"]).budget = 0
    /\ Unwrap(Unwrap(supplied)["Bytes"]).one_time_burst = Some(MaxBurst)
    /\ Present("Bytes")
    /\ TB("Bytes").budget = MaxSize
    /\ TB("Bytes").last_update > 0

-----------------------------------------------------------------------------
(* Properties of the blocking protocol over unbounded time. *)

\* C27: for a limiter with a present bucket, a refused consume(n, kind) that is
\* retried each time the 100 ms timer expires and event_handler returns Ok is
\* eventually granted, under fair passage of time, for every bucket
\* configuration (size > 0, refill time > 0) and every n.
C27_RetryEventuallyGranted == IsSome(pending) ~> ~IsSome(pending)

\* C31: update_buckets with a supplied bucket whose size or refill time is 0
\* makes that token kind absent, and consume on an absent kind returns true;
\* update_buckets never changes timer_active or the timer, and a blocked limiter
\* is unblocked only by an event_handler that returns Ok after the expiry.
C31_UpdateDisablesKindOnly ==
    [][ /\ \A k \in TokenTypes :
               ( /\ last'.op = "update_buckets"
                 /\ IsSome(Unwrap(supplied')[k])
                 /\ \/ Unwrap(Unwrap(supplied')[k]).size = 0
                    \/ Unwrap(Unwrap(supplied')[k]).refill_time = 0 )
               => ~Present(k)'
        /\ last'.op = "update_buckets"
               => UNCHANGED <<timer_active, timer_deadline, timer_expirations>>
        /\ \A k \in TokenTypes :
               (last'.op = "consume" /\ last'.token_type = k /\ ~Present(k))
               => last'.ret /\ UNCHANGED <<bandwidth, ops, timer_active>>
        /\ (timer_active /\ ~timer_active')
               => /\ last'.op = "event_handler" /\ last'.ret
                  /\ timer_expirations > 0 ]_vars

\* C31 witness: a limiter blocked with its timer armed was given a bytes bucket
\* of size 0; bytes are no longer limited and the limiter is still blocked.
C31_Witness ==
    /\ last.op = "update_buckets"
    /\ IsSome(supplied) /\ IsSome(Unwrap(supplied)["Bytes"])
    /\ Unwrap(Unwrap(supplied)["Bytes"]).size = 0
    /\ Unwrap(Unwrap(supplied)["Bytes"]).refill_time > 0
    /\ ~Present("Bytes")
    /\ timer_active /\ IsSome(timer_deadline)

-----------------------------------------------------------------------------
(* Properties of the two buckets of one limiter. *)

\* C32: the two buckets are accounted independently: consume(n, Bytes) and
\* manual_replenish(n, Bytes) leave the ops bucket (budget, burst, last_update)
\* unchanged, and symmetrically for Ops; only the blocked flag and the timer are
\* shared between the kinds.
C32_BucketsIndependent ==
    [][ last'.op \in {"consume", "manual_replenish"}
            => /\ last'.token_type = "Bytes" => ops' = ops
               /\ last'.token_type = "Ops" => bandwidth' = bandwidth ]_vars

\* C32 witness: a bytes request has been refused and has blocked the limiter,
\* next to an ops bucket that was drawn from earlier and is as it was then.
C32_Witness ==
    /\ last.op = "consume" /\ last.token_type = "Bytes" /\ ~last.ret
    /\ timer_active
    /\ Present("Bytes") /\ Present("Ops")
    /\ TB("Bytes").last_update = now
    /\ TB("Ops").last_update < now
    /\ TB("Ops").budget < TB("Ops").size

-----------------------------------------------------------------------------
(* Properties of a bucket whose one-time burst is not exhausted. *)

\* C39: in every reachable state of a bucket, one_time_burst > 0 implies
\* budget = size: the budget is not drawn from or credited while burst credit
\* remains.
C39_BurstMeansFullBudget ==
    \A k \in TokenTypes :
        (Present(k) /\ one_time_burst(TB(k)) > 0)
            => TB(k).budget = TB(k).size

\* C39 witness: part of the burst has been consumed after time has passed; the
\* rest of the burst is there and the budget is full.
C39_Witness ==
    /\ last.op = "consume" /\ last.token_type = "Bytes" /\ last.ret
    /\ last.tokens > 0
    /\ Present("Bytes")
    /\ one_time_burst(TB("Bytes")) > 0
    /\ one_time_burst(TB("Bytes")) < MaxBurst
    /\ TB("Bytes").last_update > 0
    /\ TB("Bytes").budget = TB("Bytes").size

\* C40: reduce never refuses while one-time burst remains: a consume on a kind
\* whose burst is positive returns true for every amount and leaves the limiter
\* as blocked or unblocked as it was.
C40_BurstNeverRefuses ==
    [][ \A k \in TokenTypes :
            ( /\ last'.op = "consume" /\ last'.token_type = k
              /\ Present(k)
              /\ one_time_burst(TB(k)) > 0 )
            => /\ last'.ret
               /\ UNCHANGED <<timer_active, timer_deadline, timer_expirations>> ]_vars

\* C40 witness: a request that exceeds the remaining burst by more than the
\* bucket's size has been granted, the budget taken whole.
C40_Witness ==
    /\ last.op = "consume" /\ last.token_type = "Bytes" /\ last.ret
    /\ IsSome(prev)
    /\ one_time_burst(Unwrap(prev)) > 0
    /\ last.tokens - one_time_burst(Unwrap(prev)) > Unwrap(prev).size
    /\ TB("Bytes").one_time_burst = Some(0)
    /\ TB("Bytes").budget = 0

-----------------------------------------------------------------------------
(* Properties of the exit dispatch of a vCPU thread. *)

\* The bus, the operation and the counter of each exit that is emulated.
DispatchOf(kind) ==
    CASE kind = "IoIn" -> [bus |-> "io_bus", op |-> "read", counter |-> "exit_io_in"]
      [] kind = "IoOut" -> [bus |-> "io_bus", op |-> "write", counter |-> "exit_io_out"]
      [] kind = "MmioRead" -> [bus |-> "mmio_bus", op |-> "read", counter |-> "exit_mmio_read"]
      [] kind = "MmioWrite" -> [bus |-> "mmio_bus", op |-> "write", counter |-> "exit_mmio_write"]

\* C33: each IoIn exit causes exactly one read on the port-I/O bus, each IoOut
\* one write on the port-I/O bus, each MmioRead one read on the MMIO bus, each
\* MmioWrite one write on the MMIO bus, at the exit's address; each increments
\* only its own exit counter, by one, and none of them ends the loop.
C33_ExitDispatch ==
    [][\A i \in Vcpus :
        RanWith(i, {"IoIn", "IoOut", "MmioRead", "MmioWrite"})
            => LET d == DispatchOf(vlast'.exit.kind) IN
               /\ vlast'.emulated.access = << [bus |-> d.bus, op |-> d.op,
                                               addr |-> vlast'.exit.addr] >>
               /\ metrics' = [metrics EXCEPT ![d.counter] = @ + 1]
               /\ vlast'.emulated.ok
               /\ pc'[i] = "running"]_vars

\* C33 witness: vCPU 0 has dispatched a port read, then an MMIO write, then an
\* MMIO read, each counted once, and is still Running.
C33_Witness ==
    /\ runs[0] = 3 /\ pc[0] = "running"
    /\ vlast.vcpu = 0 /\ vlast.step = "run" /\ vlast.exit.kind = "MmioRead"
    /\ vlast.emulated.access = Access("mmio_bus", "read", vlast.exit.addr)
    /\ metrics = [ failures |-> 0, exit_io_in |-> 1, exit_io_out |-> 0,
                   exit_mmio_read |-> 1, exit_mmio_write |-> 1 ]

\* C34: the boot-complete log is emitted for an exit if and only if the exit is
\* an IoOut with port 0x03F0 and first data byte 123; the write is then still
\* forwarded to the port-I/O bus, the io-out counter incremented and the loop
\* continued.
C34_BootCompleteLog ==
    [][\A i \in Vcpus :
        runs'[i] = runs[i] + 1
            => /\ vlast'.emulated.boot_log
                   <=> /\ vlast'.exit.kind = "IoOut"
                       /\ vlast'.exit.addr = 1008
                       /\ vlast'.exit.data = 123
               /\ vlast'.emulated.boot_log
                   => /\ vlast'.emulated.access = Access("io_bus", "write", 1008)
                      /\ metrics' = [metrics EXCEPT !.exit_io_out = @ + 1]
                      /\ pc'[i] = "running"]_vars

\* C34 witness: after a write of another byte to port 0x03F0, which was not
\* logged, vCPU 0 has written 123 to it: logged, forwarded, counted.
C34_Witness ==
    /\ runs[0] = 2 /\ pc[0] = "running"
    /\ vlast.vcpu = 0 /\ vlast.step = "run" /\ vlast.exit.kind = "IoOut"
    /\ vlast.exit.addr = MAGIC_IOPORT_SIGNAL_GUEST_BOOT_COMPLETE
    /\ vlast.exit.data = MAGIC_VALUE_SIGNAL_GUEST_BOOT_COMPLETE
    /\ vlast.emulated.boot_log
    /\ metrics.exit_io_out = 2

\* C35: Hlt, Shutdown, FailEntry, InternalError, any other unhandled exit and
\* any run error whose errno is neither EAGAIN nor EINTR end the dispatch loop
\* at once: no bus access is made for that exit and run is not called again.
C35_FatalEndsLoop ==
    [][\A i \in Vcpus :
        /\ EndsLoop(i)
              => /\ ~vlast'.emulated.ok
                 /\ vlast'.emulated.access = NoAccess
                 /\ ~vlast'.emulated.boot_log
                 /\ pc'[i] = "signal"
        /\ pc[i] \in {"signal", "exited"}
              => runs'[i] = runs[i] /\ pc'[i] \in {"signal", "exited"}]_vars

\* C35 witness: vCPU 1 has left its loop on an unhandled exit, its first, after
\* vCPU 0 had left its own on its second call of run and exited.
C35_Witness ==
    /\ pc[0] = "exited" /\ runs[0] = 2
    /\ pc[1] = "signal" /\ runs[1] = 1
    /\ vlast.vcpu = 1 /\ vlast.step = "run" /\ vlast.exit.kind = "SystemEvent"
    /\ vlast.emulated.access = NoAccess

-----------------------------------------------------------------------------
(* Properties of configure and memory_init on failure. *)

\* The fallible steps of the x86_64 configure in the order of the claim, and
\* the error variant of each.
ConfigureSteps ==
    << [step |-> "filter_cpuid", error |-> "CpuId"],
       [step |-> "set_cpuid2", error |-> "SetSupportedCpusFailed"],
       [step |-> "setup_msrs", error |-> "MSRSConfiguration"],
       [step |-> "setup_regs", error |-> "REGSConfiguration"],
       [step |-> "setup_fpu", error |-> "FPUConfiguration"],
       [step |-> "setup_sregs", error |-> "SREGSConfiguration"],
       [step |-> "set_lint", error |-> "LocalIntConfiguration"] >>

\* The place in ConfigureSteps of the step that fails; one past the end if none.
FailsAt(fail_at) ==
    IF fail_at = "none" THEN Len(ConfigureSteps) + 1
    ELSE CHOOSE n \in 1..Len(ConfigureSteps) : ConfigureSteps[n].step = fail_at

\* What the first `n` steps of ConfigureSteps, and no later one, leave on a vCPU
\* that was `before`: the table rewritten for the topology and then for the
\* template if there is one, that table installed, and the register sets written.
StepsDone(before, after, machine_config, n) ==
    LET table == Unwrap(before.cpuid)
        filter == <<"filter_cpuid", before.id, Unwrap(machine_config.vcpu_count),
                    Unwrap(machine_config.ht_enabled)>>
        rewritten == [table EXCEPT !.rewrites =
                        @ \o <<filter>> \o (IF IsSome(machine_config.cpu_template)
                                            THEN << <<Unwrap(machine_config.cpu_template)>> >>
                                            ELSE << >>)]
    IN  /\ after.id = before.id
        /\ after.cpuid = IF n >= 1 THEN Some(rewritten) ELSE before.cpuid
        /\ after.fd.cpuid2 = IF n >= 2 THEN Some(rewritten) ELSE before.fd.cpuid2
        /\ after.fd.init = before.fd.init
        /\ after.fd.programmed = before.fd.programmed
                \cup (IF n >= 3 THEN {"msrs"} ELSE {})
                \cup (IF n >= 4 THEN {"regs"} ELSE {})
                \cup (IF n >= 5 THEN {"fpu"} ELSE {})
                \cup (IF n >= 6 THEN {"sregs"} ELSE {})
                \cup (IF n >= 7 THEN {"lint"} ELSE {})

\* The vCPU is as GuestVcpu::new made it.
Unconfigured(vcpu) ==
    /\ vcpu.fd = NewVcpuFd
    /\ vcpu.cpuid = get_supported_cpuid

\* C36: the x86_64 configure performs its steps in the order topology filter,
\* template rewrite (only if selected), install CPUID, MSRs, general registers,
\* FPU, segment registers, local APIC; a missing vcpu_count yields
\* VcpuCountNotInitialized and a missing ht_enabled HTNotInitialized before any
\* step; the first failing step returns its own error variant and no later
\* step is performed.
C36_ConfigureOrder ==
    [][\A id \in TestVcpuIds, machine_config \in MachineConfigs, fail_at \in FailPoints :
        (/\ arch = "x86_64"
         /\ vm_last'.op = "configure" /\ vm_last'.arg = id
         /\ Unconfigured(Unwrap(guest_vcpus[id]))
         /\ configure(id, machine_config, fail_at))
            => LET before == Unwrap(guest_vcpus[id])
                   after == Unwrap(guest_vcpus'[id])
                   n == FailsAt(fail_at)
               IN  IF machine_config.vcpu_count = None
                   THEN vm_last'.ret = "VcpuCountNotInitialized" /\ after = before
                   ELSE IF machine_config.ht_enabled = None
                   THEN vm_last'.ret = "HTNotInitialized" /\ after = before
                   ELSE IF n > 3 /\ guest_mem = None
                   THEN vm_last'.ret = "GuestMemory"
                        /\ StepsDone(before, after, machine_config, 3)
                   ELSE IF n <= Len(ConfigureSteps)
                   THEN vm_last'.ret = ConfigureSteps[n].error
                        /\ StepsDone(before, after, machine_config, n - 1)
                   ELSE vm_last'.ret = "Ok"
                        /\ StepsDone(before, after, machine_config, Len(ConfigureSteps))]_vars

\* C36 witness: with its memory set, the VM's vCPU 0 was configured with the C3
\* template and failed at the FPU: the table was rewritten for the topology and
\* then for C3 and installed, MSRs and general registers were written, and
\* neither the segment registers nor the local APIC.
C36_Witness ==
    /\ arch = "x86_64" /\ IsSome(guest_mem)
    /\ vm_last.op = "configure" /\ vm_last.arg = 0 /\ vm_last.ret = "FPUConfiguration"
    /\ LET vcpu == Unwrap(guest_vcpus[0])
           rewrites == Unwrap(vcpu.cpuid).rewrites
       IN  /\ Len(rewrites) = 2
           /\ rewrites[1][1] = "filter_cpuid" /\ rewrites[2] = <<"C3">>
           /\ vcpu.fd.cpuid2 = vcpu.cpuid
           /\ vcpu.fd.programmed = {"msrs", "regs"}

\* C37: configure on a vCPU whose VM has no guest memory recorded fails with
\* GuestMemory(MemoryNotInitialized), and at that point no CPUID table and no
\* register state has been installed on the vCPU: the failed configure leaves
\* the vCPU unchanged. (Read for a configure that no other error stops first.)
C37_NoMemoryLeavesVcpuUnchanged ==
    [][\A id \in TestVcpuIds, machine_config \in MachineConfigs :
        (/\ guest_mem = None
         /\ IsSome(machine_config.vcpu_count) /\ IsSome(machine_config.ht_enabled)
         /\ configure(id, machine_config, "none"))
            => /\ vm_last'.ret = "GuestMemory"
               /\ guest_vcpus'[id] = guest_vcpus[id]]_vars

\* C38: if memory_init returns any error (NotEnoughMemorySlots,
\* SetUserMemoryRegion, or VmSetup from setting the TSS address), the guest
\* memory recorded by the VM is unchanged: get_memory() returns what it
\* returned before the call.
C38_FailedMemoryInitKeepsMemory ==
    [][(vm_last'.op = "memory_init" /\ vm_last'.ret # "Ok")
            => guest_mem' = guest_mem]_vars

====
